---- MODULE Spec2Model ----
(***************************************************************************)
(* JUNO automation engine: the conversation-state orchestration.           *)
(* FlowManager.process_email over the TicketManager store, the             *)
(* EntityExtractor, the IntentClassifier fallback chain and the            *)
(* StateManager dispatcher.                                                *)
(*                                                                         *)
(* A Python str is a sequence of one-character strings, so that regular    *)
(* expressions, substring tests, split and strip are computed, not         *)
(* assumed.  A dict is a function whose DOMAIN is its key set.             *)
(***************************************************************************)
EXTENDS Integers, Sequences, FiniteSets, TLC

(***************************************************************************)
(* str primitives                                                          *)
(***************************************************************************)
LowerLetters == <<"a", "b", "c", "d", "e", "f", "g", "h", "i", "j", "k", "l", "m", "n", "o", "p", "q", "r", "s", "t", "u", "v", "w", "x", "y", "z">>

UpperLetters == <<"A", "B", "C", "D", "E", "F", "G", "H", "I", "J", "K", "L", "M", "N", "O", "P", "Q", "R", "S", "T", "U", "V", "W", "X", "Y", "Z">>

DigitChars == {"0", "1", "2", "3", "4", "5", "6", "7", "8", "9"}

Range(f) == {f[i] : i \in DOMAIN f}

LowerSet == Range(LowerLetters)

UpperSet == Range(UpperLetters)

\* str.lower() / str.upper(), character by character
ToLower == [c \in UpperSet |-> LowerLetters[CHOOSE i \in DOMAIN UpperLetters : UpperLetters[i] = c]]

ToUpper == [c \in LowerSet |-> UpperLetters[CHOOSE i \in DOMAIN LowerLetters : LowerLetters[i] = c]]

LowerChar(c) == IF c \in UpperSet THEN ToLower[c] ELSE c

UpperChar(c) == IF c \in LowerSet THEN ToUpper[c] ELSE c

Lower(s) == [i \in DOMAIN s |-> LowerChar(s[i])]

Upper(s) == [i \in DOMAIN s |-> UpperChar(s[i])]

LetterChars == LowerSet \cup UpperSet

\* \s
SpaceChars == {" "}

\* \w
WordChars == LetterChars \cup DigitChars \cup {"_"}

\* [A-Z0-9-] under re.IGNORECASE
IdChars == LetterChars \cup DigitChars \cup {"-"}

\* [\w\.-]
EmailChars == WordChars \cup {".", "-"}

\* s[a:b] with 1-based inclusive bounds; empty when b < a
Slice(s, a, b) == IF b < a THEN << >> ELSE SubSeq(s, a, b)

\* s.startswith(p) at offset i (1-based)
MatchesAt(s, p, i) == /\ i >= 1
                      /\ i + Len(p) - 1 <= Len(s)
                      /\ \A k \in 1..Len(p) : s[i + k - 1] = p[k]

StartsWith(s, p) == MatchesAt(s, p, 1)

\* p in s
Contains(s, p) == \E i \in 1..(Len(s) + 1) : MatchesAt(s, p, i)

\* str.isdigit()
IsDigitStr(s) == Len(s) > 0 /\ \A i \in DOMAIN s : s[i] \in DigitChars

\* any(c.isdigit() for c in s)
HasDigit(s) == \E i \in DOMAIN s : s[i] \in DigitChars

\* the end (inclusive) of the longest run of characters of cls that starts at i;
\* i - 1 when there is none
RECURSIVE RunEnd(_, _, _)
RunEnd(s, i, cls) ==
    IF i <= Len(s) /\ s[i] \in cls THEN RunEnd(s, i + 1, cls) ELSE i - 1

\* the same for the characters not in cls
RECURSIVE RunEndNot(_, _, _)
RunEndNot(s, i, cls) ==
    IF i <= Len(s) /\ s[i] \notin cls THEN RunEndNot(s, i + 1, cls) ELSE i - 1

\* str.split(): the maximal runs of non-whitespace, left to right
RECURSIVE SplitFrom(_, _)
SplitFrom(s, i) ==
    IF i > Len(s) THEN << >>
    ELSE IF s[i] \in SpaceChars THEN SplitFrom(s, i + 1)
    ELSE LET e == RunEndNot(s, i, SpaceChars)
         IN  <<Slice(s, i, e)>> \o SplitFrom(s, e + 1)

Split(s) == SplitFrom(s, 1)

\* str.strip(chars)
Strip(s, chars) ==
    LET keep == {i \in DOMAIN s : s[i] \notin chars}
    IN  IF keep = {} THEN << >>
        ELSE LET a == CHOOSE i \in keep : \A j \in keep : i <= j
                 b == CHOOSE i \in keep : \A j \in keep : j <= i
             IN  Slice(s, a, b)

(***************************************************************************)
(* The texts of the model's messages.  What the scans below compute for    *)
(* a text is computed once, in the ...Memo tables over these texts.        *)
(***************************************************************************)
TextOrder1001 == <<"W", "h", "e", "r", "e", " ", "i", "s", " ", "o", "r", "d", "e", "r", " ", "#", "1", "0", "0", "1", "?">>

TextOrderNoId == <<"W", "h", "e", "r", "e", " ", "i", "s", " ", "m", "y", " ", "o", "r", "d", "e", "r", "?">>

TextFollowUp == <<"I", "t", " ", "i", "s", " ", "#", "1", "0", "0", "2", ",", " ", "n", "o", " ", "r", "u", "s", "h">>

TextOrderWord == <<"o", "r", "d", "e", "r", " ", "s", "t", "a", "t", "u", "s", " ", "l", "a", "t", "e">>

TextReturnPolicy == <<"W", "h", "a", "t", " ", "i", "s", " ", "y", "o", "u", "r", " ", "r", "e", "t", "u", "r", "n", " ", "p", "o", "l", "i", "c", "y", "?">>

TextReset == <<"r", "e", "s", "e", "t", " ", "b", "o", "b", "@", "e", "x", "a", "m", "p", "l", "e", ".", "c", "o", "m">>

TextMars == <<"H", "o", "w", " ", "d", "o", " ", "I", " ", "f", "l", "y", " ", "t", "o", " ", "M", "a", "r", "s", "?">>

TextStock == <<"I", "s", " ", "t", "h", "e", " ", "L", "i", "g", "h", "t", " ", "i", "n", " ", "s", "t", "o", "c", "k">>

TextCorpus == {TextOrder1001, TextOrderNoId, TextFollowUp, TextOrderWord, TextReturnPolicy, TextReset, TextMars, TextStock}

(***************************************************************************)
(* EntityExtractor (m05_entity_extractor.py)                               *)
(***************************************************************************)
\* the labels of explicit_pattern, in the order of the alternation
ExplicitLabels == << <<"#">>, <<"o", "r", "d", "e", "r">>, <<"i", "d">>, <<"r", "e", "f">> >>

\* \s*:?\s* starting at i: the index of the first character after it.  No
\* character of [A-Z0-9-] is a space or a colon, so the greedy choice is the
\* only one that lets the group match.
SkipLabelTail(s, i) ==
    LET a == RunEnd(s, i, SpaceChars) + 1
        b == IF a <= Len(s) /\ s[a] = ":" THEN a + 1 ELSE a
    IN  RunEnd(s, b, SpaceChars) + 1

\* `len(order_id) >= 4` in _validate_order_id
HashMinLen == 4

\* {4,} in explicit_pattern, len(clean_token) >= 4
IdMinLen == 4

\* None and a returned value: a sequence of length 0 or 1
None == << >>

Some(v) == <<v>>

\* explicit_pattern tried at start position i with alternative k: group(1), or None
ExplicitAt(s, i, k) ==
    LET lab == ExplicitLabels[k]
    IN  IF ~MatchesAt(Lower(s), lab, i) THEN None
        ELSE LET g == IF k = 1 THEN i + 1 ELSE SkipLabelTail(s, i + Len(lab))
                 e == RunEnd(s, g, IdChars)
             IN  IF e - g + 1 >= IdMinLen THEN Some(Slice(s, g, e)) ELSE None

\* re.search(explicit_pattern, text, re.IGNORECASE): the leftmost start position
\* that matches, and there the first alternative that matches
ExplicitSearch(s) ==
    LET hits == {p \in (1..Len(s)) \X (1..Len(ExplicitLabels)) : ExplicitAt(s, p[1], p[2]) # None}
    IN  IF hits = {} THEN None
        ELSE LET best == CHOOSE p \in hits : \A q \in hits :
                              p[1] < q[1] \/ (p[1] = q[1] /\ p[2] <= q[2])
             IN  ExplicitAt(s, best[1], best[2])

\* the token loop of extract_order_id: the first token that qualifies
StandaloneOk(tok) ==
    LET clean == Strip(tok, {".", ",", "?", "!"})
    IN  /\ Len(clean) >= IdMinLen
        /\ HasDigit(clean)
        /\ \A i \in DOMAIN clean : clean[i] \in IdChars

StandaloneSearch(s) ==
    LET toks == Split(s)
        ok   == {i \in DOMAIN toks : StandaloneOk(toks[i])}
    IN  IF ok = {} THEN None
        ELSE Some(Strip(toks[CHOOSE i \in ok : \A j \in ok : i <= j], {".", ",", "?", "!"}))

\* `if match: return match.group(1)`, else the token loop
OrElse(match, otherwise) == IF match # None THEN match ELSE otherwise

OrderIdScan(text) == OrElse(ExplicitSearch(text), StandaloneSearch(text))

OrderIdMemo == [t \in TextCorpus |-> OrderIdScan(t)]

extract_order_id(text) == OrderIdMemo[text]

\* [\w\.-]+@[\w\.-]+\.\w+ tried at start position i: group(0), or None.
\* "@" is not in [\w\.-], so the local part is the run up to the first "@";
\* the domain is the longest prefix of the run after "@" that ends before a "."
\* followed by a word character, then the word run after that ".".
EmailAt(s, i) ==
    LET le == RunEnd(s, i, EmailChars)
    IN  IF le < i \/ le + 1 > Len(s) \/ s[le + 1] # "@" THEN None
        ELSE LET d    == le + 2
                 de   == RunEnd(s, d, EmailChars)
                 dots == {j \in (d + 1)..(de - 1) : s[j] = "." /\ s[j + 1] \in WordChars}
             IN  IF dots = {} THEN None
                 ELSE LET j == CHOOSE x \in dots : \A y \in dots : y <= x
                      IN  Some(Slice(s, i, RunEnd(s, j + 1, WordChars)))

EmailScan(text) ==
    LET hits == {i \in 1..Len(text) : EmailAt(text, i) # None}
    IN  IF hits = {} THEN None
        ELSE EmailAt(text, CHOOSE i \in hits : \A j \in hits : i <= j)

EmailMemo == [t \in TextCorpus |-> EmailScan(t)]

extract_email(text) == EmailMemo[text]

\* one product against the text: the official name, then each alias
ProductHit(text, product) ==
    LET text_lower == <<" ">> \o Lower(text) \o <<" ">>
        official   == Lower(product.product_name)
    IN  \/ Contains(text_lower, <<" ">> \o official \o <<" ">>)
        \/ Contains(Lower(text), official)
        \/ \E a \in DOMAIN product.aliases : Contains(text_lower, Lower(product.aliases[a]))

ProductScan(text, database) ==
    LET products == database.products
        hits     == {i \in DOMAIN products : ProductHit(text, products[i])}
    IN  IF hits = {} THEN None
        ELSE Some(products[CHOOSE i \in hits : \A j \in hits : i <= j].product_name)

\* config/mock_database.json: order 1001 with status "Shipped", and an order
\* whose id _validate_order_id rejects
MockDb ==
    [orders   |-> << [order_id |-> <<"1", "0", "0", "1">>, status |-> <<"S", "h", "i", "p", "p", "e", "d">>],
                     [order_id |-> <<"s", "t", "a", "t", "u", "s">>, status |-> <<"P", "e", "n", "d", "i", "n", "g">>] >>,
     products |-> << [product_name |-> <<"L", "a", "m", "p">>, aliases |-> << <<"l", "i", "g", "h", "t">> >>,
                      stock |-> <<"1", "2">>] >>,
     users    |-> << [email |-> <<"b", "o", "b", "@", "e", "x", "a", "m", "p", "l", "e", ".", "c", "o", "m">>] >>]

\* the catalogs of the model
Databases == {MockDb}

ProductMemo == [t \in TextCorpus, database \in Databases |-> ProductScan(t, database)]

extract_product(text, database) == ProductMemo[text, database]

\* a dict literal and dict.update
EmptyDict == [k \in {} |-> << >>]

Update(d, e) == [k \in DOMAIN d \cup DOMAIN e |-> IF k \in DOMAIN e THEN e[k] ELSE d[k]]

\* `x in list`
InList(x, list) == \E i \in DOMAIN list : list[i] = x

\* `if slot in required_entities: val = ...; if val: extracted[slot] = val`
PutIfTruthy(extracted, slot, required_entities, val) ==
    IF InList(slot, required_entities) /\ val # None /\ Len(val[1]) > 0
    THEN Update(extracted, (slot :> val[1]))
    ELSE extracted

\* database is never None here: process_email passes self.mock_db
run_extraction(text, required_entities, database) ==
    PutIfTruthy(PutIfTruthy(PutIfTruthy(EmptyDict,
                                        "order_id", required_entities, extract_order_id(text)),
                            "email", required_entities, extract_email(text)),
                "product_name", required_entities, extract_product(text, database))


(***************************************************************************)
(* IntentClassifier (m02_intent_classifier.py)                             *)
(*                                                                         *)
(* The embedding model and the SetFit model are not code of the            *)
(* repository: what they compute for a text is an input of the call        *)
(* (`sim`: the cosine similarity per intent anchor, `l1`: the outcome of   *)
(* predict_proba), in hundredths.  Everything the classifier does with     *)
(* those numbers is computed.                                              *)
(***************************************************************************)
\* a call's outcome: a returned value, or an exception that leaves the call
Ret(v) == [raised |-> FALSE, value |-> v]

Raise(e) == [raised |-> TRUE, value |-> [exception |-> e]]

\* what loading found: [files, mood_path, setfit, embedder], each TRUE when that
\* step of __init__ succeeded.  mood_classifier is assigned only after the
\* model-file check: "unset" is an attribute __init__ never assigned.
IntentClassifierInit(load) ==
    IF ~load.files
    THEN [embedder |-> FALSE, mood_classifier |-> "unset"]
    ELSE [embedder |-> load.embedder,
          mood_classifier |-> IF load.mood_path /\ load.setfit THEN "model" ELSE "none"]

\* self.intent_map, in insertion order
IntentLabels == <<"order_status_inquiry", "inventory_stock_availability",
                  "product_information_question", "account_password_reset",
                  "general_faq_question">>

\* `if best_score < 0.25`
UnknownFloor == 25

\* the loop of predict over intent_embeddings.items(): (best_intent, best_score)
\* after the first n anchors
RECURSIVE BestIntent(_, _)
BestIntent(sim, n) ==
    IF n = 0 THEN <<"unknown", -100>>
    ELSE LET prev == BestIntent(sim, n - 1)
         IN  IF sim[n] > prev[2] THEN <<IntentLabels[n], sim[n]>> ELSE prev

predict(cls, sim) ==
    IF ~cls.embedder THEN <<"error", 0>>
    ELSE LET best == BestIntent(sim, Len(IntentLabels))
         IN  IF best[2] < UnknownFloor THEN <<"unknown", best[2]>> ELSE best

\* the dict `keywords` of _keyword_fallback, in insertion order
KeywordMoods == <<"Angry", "Happy", "Urgent", "Confused">>

KeywordsAngry ==
    << <<"a", "n", "g", "r", "y">>,
       <<"u", "p", "s", "e", "t">>,
       <<"f", "r", "u", "s", "t", "r", "a", "t", "e", "d">>,
       <<"a", "n", "n", "o", "y", "e", "d">>,
       <<"f", "u", "r", "i", "o", "u", "s">>,
       <<"m", "a", "d">>,
       <<"d", "i", "s", "a", "p", "p", "o", "i", "n", "t", "e", "d">>,
       <<"w", "o", "r", "s", "t">>,
       <<"t", "e", "r", "r", "i", "b", "l", "e">>,
       <<"h", "o", "r", "r", "i", "b", "l", "e">>,
       <<"a", "w", "f", "u", "l">>,
       <<"g", "a", "r", "b", "a", "g", "e">>,
       <<"t", "r", "a", "s", "h">>,
       <<"u", "s", "e", "l", "e", "s", "s">>,
       <<"b", "r", "o", "k", "e", "n">>,
       <<"d", "a", "m", "a", "g", "e", "d">>,
       <<"d", "e", "f", "e", "c", "t", "i", "v", "e">>,
       <<"s", "c", "a", "m">>,
       <<"f", "r", "a", "u", "d">>,
       <<"r", "i", "p", " ", "o", "f", "f">>,
       <<"r", "e", "f", "u", "n", "d">>,
       <<"m", "o", "n", "e", "y", " ", "b", "a", "c", "k">>,
       <<"c", "h", "a", "r", "g", "e", "b", "a", "c", "k">>,
       <<"c", "h", "e", "a", "t", "e", "d">>,
       <<"s", "t", "u", "p", "i", "d">>,
       <<"i", "d", "i", "o", "t">>,
       <<"i", "n", "c", "o", "m", "p", "e", "t", "e", "n", "t">>,
       <<"r", "i", "d", "i", "c", "u", "l", "o", "u", "s">>,
       <<"p", "a", "t", "h", "e", "t", "i", "c">>,
       <<"d", "a", "m", "n">>,
       <<"h", "e", "l", "l">>,
       <<"s", "u", "c", "k", "s">> >>

KeywordsHappy ==
    << <<"t", "h", "a", "n", "k", "s">>,
       <<"t", "h", "a", "n", "k", " ", "y", "o", "u">>,
       <<"t", "h", "x">>,
       <<"a", "p", "p", "r", "e", "c", "i", "a", "t", "e">>,
       <<"g", "r", "a", "t", "e", "f", "u", "l">>,
       <<"l", "o", "v", "e">>,
       <<"g", "r", "e", "a", "t">>,
       <<"a", "w", "e", "s", "o", "m", "e">>,
       <<"a", "m", "a", "z", "i", "n", "g">>,
       <<"e", "x", "c", "e", "l", "l", "e", "n", "t">>,
       <<"p", "e", "r", "f", "e", "c", "t">>,
       <<"w", "o", "n", "d", "e", "r", "f", "u", "l">>,
       <<"f", "a", "n", "t", "a", "s", "t", "i", "c">>,
       <<"g", "o", "o", "d", " ", "j", "o", "b">>,
       <<"b", "e", "s", "t">>,
       <<"s", "a", "t", "i", "s", "f", "i", "e", "d">>,
       <<"h", "a", "p", "p", "y">>,
       <<"f", "a", "s", "t", " ", "s", "h", "i", "p", "p", "i", "n", "g">>,
       <<"h", "i", "g", "h", " ", "q", "u", "a", "l", "i", "t", "y">> >>

KeywordsUrgent ==
    << <<"a", "s", "a", "p">>,
       <<"u", "r", "g", "e", "n", "t">>,
       <<"e", "m", "e", "r", "g", "e", "n", "c", "y">>,
       <<"i", "m", "m", "e", "d", "i", "a", "t", "e", "l", "y">>,
       <<"r", "i", "g", "h", "t", " ", "n", "o", "w">>,
       <<"h", "u", "r", "r", "y">>,
       <<"r", "u", "s", "h">>,
       <<"d", "e", "a", "d", "l", "i", "n", "e">>,
       <<"l", "a", "t", "e">>,
       <<"o", "v", "e", "r", "d", "u", "e">>,
       <<"w", "h", "e", "r", "e", " ", "i", "s", " ", "m", "y">>,
       <<"h", "a", "v", "e", "n", "'", "t", " ", "r", "e", "c", "e", "i", "v", "e", "d">>,
       <<"w", "a", "i", "t", "i", "n", "g">> >>

KeywordsConfused ==
    << <<"c", "o", "n", "f", "u", "s", "e", "d">>,
       <<"d", "o", "n", "'", "t", " ", "u", "n", "d", "e", "r", "s", "t", "a", "n", "d">>,
       <<"d", "i", "d", "n", "'", "t", " ", "u", "n", "d", "e", "r", "s", "t", "a", "n", "d">>,
       <<"u", "n", "s", "u", "r", "e">>,
       <<"n", "o", "t", " ", "s", "u", "r", "e">>,
       <<"c", "l", "a", "r", "i", "f", "y">>,
       <<"e", "x", "p", "l", "a", "i", "n">>,
       <<"w", "e", "i", "r", "d">>,
       <<"s", "t", "r", "a", "n", "g", "e">>,
       <<"o", "d", "d">>,
       <<"d", "o", "e", "s", "n", "'", "t", " ", "m", "a", "k", "e", " ", "s", "e", "n", "s", "e">>,
       <<"h", "e", "l", "p", " ", "m", "e", " ", "u", "n", "d", "e", "r", "s", "t", "a", "n", "d">>,
       <<"h", "o", "w", " ", "d", "o", " ", "i">>,
       <<"w", "h", "a", "t", " ", "d", "o", "e", "s", " ", "t", "h", "i", "s", " ", "m", "e", "a", "n">> >>

Keywords == <<KeywordsAngry, KeywordsHappy, KeywordsUrgent, KeywordsConfused>>

\* any(w in text_lower for w in words)
AnyIn(words, text_lower) == \E i \in DOMAIN words : Contains(text_lower, words[i])

KeywordScan(text) ==
    LET text_lower == Lower(text)
        hit == {m \in DOMAIN Keywords : AnyIn(Keywords[m], text_lower)}
    IN  IF Contains(text_lower, <<"n", "o", "t", " ", "h", "a", "p", "p", "y">>) \/ Contains(text_lower, <<"u", "n", "h", "a", "p", "p", "y">>)
        THEN "Angry"
        ELSE IF hit # {} THEN KeywordMoods[CHOOSE m \in hit : \A m2 \in hit : m <= m2]
        ELSE "Neutral"

KeywordMemo == [t \in TextCorpus |-> KeywordScan(t)]

_keyword_fallback(text) == KeywordMemo[text]

\* known_labels
KnownLabels == <<"Angry", "Confused", "Happy", "Neutral", "Urgent">>

\* `if confidence >= 0.50`
MoodThreshold == 50

Negatives ==
    << <<"n", "o", "t", " ", "h", "a", "p", "p", "y">>,
       <<"u", "n", "h", "a", "p", "p", "y">>,
       <<"d", "i", "s", "a", "p", "p", "o", "i", "n", "t", "e", "d">>,
       <<"d", "e", "l", "a", "y">>,
       <<"w", "a", "i", "t", "i", "n", "g">>,
       <<"w", "h", "e", "r", "e", " ", "i", "s">>,
       <<"l", "a", "t", "e">> >>

CalmWords ==
    << <<"j", "u", "s", "t", " ", "c", "h", "e", "c", "k", "i", "n", "g">>,
       <<"c", "u", "r", "i", "o", "u", "s">>,
       <<"w", "o", "n", "d", "e", "r", "i", "n", "g">>,
       <<"n", "o", " ", "r", "u", "s", "h">>,
       <<"t", "a", "k", "e", " ", "y", "o", "u", "r", " ", "t", "i", "m", "e">>,
       <<"u", "p", "d", "a", "t", "e", "?">> >>

\* np.argmax: the first index of the maximum
ArgMax(probs) == CHOOSE i \in DOMAIN probs :
                    /\ \A j \in DOMAIN probs : probs[j] <= probs[i]
                    /\ \A j \in DOMAIN probs : j < i => probs[j] < probs[i]

\* the body of `if confidence >= 0.50:`
HasNegative(text) == AnyIn(Negatives, Lower(text))

HasCalmWord(text) == AnyIn(CalmWords, Lower(text))

OverrideScan(mood, text) ==
    IF mood = "Happy" /\ HasNegative(text) THEN "Angry"
    ELSE IF mood = "Urgent" /\ HasCalmWord(text) THEN "Neutral"
    ELSE mood

OverrideMemo == [mood \in Range(KnownLabels), t \in TextCorpus |-> OverrideScan(mood, t)]

SafetyOverride(mood, text) == OverrideMemo[mood, text]

\* predict_mood with the safety overrides applied to whatever it returns, the
\* label of the lexicon layer included
predict_mood_override_always(cls, text, l1) ==
    IF cls.mood_classifier = "unset" THEN Raise("AttributeError")
    ELSE IF cls.mood_classifier = "model" /\ ~l1.error
              /\ l1.probs[ArgMax(l1.probs)] >= MoodThreshold
    THEN Ret(SafetyOverride(KnownLabels[ArgMax(l1.probs)], text))
    ELSE Ret(SafetyOverride(_keyword_fallback(text), text))

\* l1 = [error, probs]: predict_proba raised, or the probabilities it returned
predict_mood(cls, text, l1) ==
    IF cls.mood_classifier = "unset" THEN Raise("AttributeError")
    ELSE IF cls.mood_classifier = "model" /\ ~l1.error
              /\ l1.probs[ArgMax(l1.probs)] >= MoodThreshold
    THEN Ret(SafetyOverride(KnownLabels[ArgMax(l1.probs)], text))
    ELSE Ret(_keyword_fallback(text))

(***************************************************************************)
(* Ticket and TicketManager (m04_ticket_manager.py)                        *)
(***************************************************************************)
\* Ticket.__init__: the uuid and the clock reading are the call's inputs
Ticket(user_id, intent, mood, entities, missing_fields, severity, uuid, now) ==
    [ticket_id |-> uuid, user_id |-> user_id, intent |-> intent, mood |-> mood,
     severity |-> severity, extracted_entities |-> entities,
     missing_fields |-> missing_fields, status |-> "OPEN",
     created_at |-> now, updated_at |-> now, history |-> << >>]

\* the list comprehension of update_entities
RECURSIVE FilterOut(_, _)
FilterOut(list, keys) ==
    IF list = << >> THEN << >>
    ELSE IF Head(list) \in keys THEN FilterOut(Tail(list), keys)
    ELSE <<Head(list)>> \o FilterOut(Tail(list), keys)

\* update_entities without the list comprehension: a filled slot stays listed
update_entities_unfiltered(t, new_entities, now) ==
    IF DOMAIN new_entities = {} THEN t
    ELSE [t EXCEPT !.extracted_entities = Update(t.extracted_entities, new_entities),
                   !.updated_at = now]

\* update_entities listing as missing every slot the extractor knows that is
\* not filled, the slots the ticket never required included
update_entities_all_slots(t, new_entities, now) ==
    IF DOMAIN new_entities = {} THEN t
    ELSE LET merged == Update(t.extracted_entities, new_entities)
         IN  [t EXCEPT !.extracted_entities = merged,
                       !.missing_fields = FilterOut(<<"order_id", "email", "product_name">>,
                                                    DOMAIN merged),
                       !.updated_at = now]

\* new_entities holds no None value: run_extraction stores truthy values only
update_entities(t, new_entities, now) ==
    IF DOMAIN new_entities = {} THEN t
    ELSE LET merged == Update(t.extracted_entities, new_entities)
         IN  [t EXCEPT !.extracted_entities = merged,
                       !.missing_fields = FilterOut(t.missing_fields, DOMAIN merged),
                       !.updated_at = now]

add_message(t, sender, text, now) ==
    [t EXCEPT !.history = Append(t.history, [timestamp |-> now, sender |-> sender, text |-> text])]

is_complete(t) == Len(t.missing_fields) = 0

to_dict(t) ==
    [ticket_id |-> t.ticket_id, user_id |-> t.user_id, intent |-> t.intent,
     mood |-> t.mood, severity |-> t.severity,
     extracted_entities |-> t.extracted_entities,
     missing_fields |-> t.missing_fields, status |-> t.status,
     created_at |-> t.created_at, updated_at |-> t.updated_at,
     history |-> t.history]

\* from_dict without the assignments after the constructor call: the ticket
\* keeps the constructor's id, status, times and empty history
from_dict_constructed(data, uuid, now) ==
    Ticket(data.user_id, data.intent, data.mood, data.extracted_entities,
           data.missing_fields, data.severity, uuid, now)

\* from_dict builds a Ticket (a fresh id, status OPEN, the current time, no
\* history) and then assigns the five saved fields over it
from_dict(data, uuid, now) ==
    LET ticket == Ticket(data.user_id, data.intent, data.mood,
                         data.extracted_entities, data.missing_fields,
                         data.severity, uuid, now)
    IN  [ticket EXCEPT !.ticket_id = data.ticket_id, !.status = data.status,
                       !.created_at = data.created_at,
                       !.updated_at = data.updated_at, !.history = data.history]

\* calculate_severity with the default of create_ticket's signature only
calculate_severity_default(mood) == "Low"

calculate_severity(mood) ==
    IF mood \in {"Angry", "Urgent"} THEN "High"
    ELSE IF mood = "Confused" THEN "Medium"
    ELSE "Low"


(***************************************************************************)
(* StateManager (m06_email_state_manager.py)                               *)
(***************************************************************************)
\* dict.get(key): None when the key is absent
Get(d, k) == IF k \in DOMAIN d THEN Some(d[k]) ELSE None

\* `req not in extracted_data`: a test of the key alone
Absent(opt) == opt = None

\* `not extracted_data.get(req)`: absent, or an empty str
Falsy(opt) == opt = None \/ Len(opt[1]) = 0

Result(state, data, missing) == [state |-> state, data |-> data, missing |-> missing]

_validate_order_id(order_id) ==
    IF Len(order_id) = 0 THEN FALSE
    ELSE IF \/ StartsWith(order_id, <<"#">>)
            \/ StartsWith(Upper(order_id), <<"O", "R", "D", "-">>)
            \/ IsDigitStr(order_id)
         THEN TRUE
    ELSE Len(order_id) >= HashMinLen /\ HasDigit(order_id)

\* next((item for item in items if item[key] == value), None)
FirstWith(items, key, value) ==
    LET hits == {i \in DOMAIN items : items[i][key] = value}
    IN  IF hits = {} THEN None ELSE Some(items[CHOOSE i \in hits : \A j \in hits : i <= j])

\* _lookup_order searching the catalog before it validates the format
_lookup_order_search_first(db, order_id) ==
    LET result == FirstWith(db.orders, "order_id", order_id)
    IN  IF result # None THEN Result("success", result[1], None)
        ELSE IF ~_validate_order_id(order_id)
        THEN Result("invalid_format", EmptyDict, Some(<<<<"O", "r", "d", "e", "r", " ", "I", "D">>>>))
        ELSE Result("not_found", ("order_id" :> order_id), None)

_lookup_order(db, order_id) ==
    IF ~_validate_order_id(order_id)
    THEN Result("invalid_format", EmptyDict, Some(<<<<"O", "r", "d", "e", "r", " ", "I", "D">>>>))
    ELSE LET result == FirstWith(db.orders, "order_id", order_id)
         IN  IF result # None THEN Result("success", result[1], None)
             ELSE Result("not_found", ("order_id" :> order_id), None)

_check_stock(db, product_name) ==
    LET result == FirstWith(db.products, "product_name", product_name)
    IN  IF result # None THEN Result("success", result[1], None)
        ELSE Result("not_found", ("product_name" :> product_name), None)

_get_product_info(db, product_name) == _check_stock(db, product_name)

_trigger_reset(db, email) ==
    LET result == FirstWith(db.users, "email", email)
    IN  IF result # None THEN Result("success", ("email" :> email), None)
        ELSE Result("not_found", ("email" :> email), None)

\* the list comprehension `missing` of process_request
RECURSIVE MissingOf(_, _)
MissingOf(required, extracted_data) ==
    IF required = << >> THEN << >>
    ELSE (IF Falsy(Get(extracted_data, Head(required))) THEN <<Head(required)>> ELSE << >>)
         \o MissingOf(Tail(required), extracted_data)

\* the slot an action reads with extracted_data[slot]
ActionSlot == [lookup_order |-> "order_id", check_stock |-> "product_name",
               get_product_info |-> "product_name", trigger_reset |-> "email"]

\* extracted_data[slot] raises KeyError when the configuration does not require
\* the slot its action reads
process_request(intent_config, db, intent, extracted_data) ==
    IF intent \notin DOMAIN intent_config
    THEN Ret(Result("error", EmptyDict, Some(<< >>)))
    ELSE LET config  == intent_config[intent]
             missing == MissingOf(config.required_entities, extracted_data)
             action  == config.action_type
         IN  IF missing # << >> THEN Ret(Result("missing_info", EmptyDict, Some(missing)))
             ELSE IF action \in DOMAIN ActionSlot /\ ActionSlot[action] \notin DOMAIN extracted_data
                  THEN Raise("KeyError")
             ELSE IF action = "lookup_order"
                  THEN Ret(_lookup_order(db, extracted_data["order_id"]))
             ELSE IF action = "check_stock"
                  THEN Ret(_check_stock(db, extracted_data["product_name"]))
             ELSE IF action = "get_product_info"
                  THEN Ret(_get_product_info(db, extracted_data["product_name"]))
             ELSE IF action = "trigger_reset"
                  THEN Ret(_trigger_reset(db, extracted_data["email"]))
             ELSE IF action = "general_reply"
                  THEN Ret(Result("success", EmptyDict, None))
             ELSE Ret(Result("error", EmptyDict, None))

(***************************************************************************)
(* TemplateEngine (m07_jinja_email.py)                                     *)
(*                                                                         *)
(* The characters of a rendered template are those of a template file,     *)
(* which is not code: a rendered text is the template's name with the      *)
(* context it was rendered in.  A text whose characters are known is       *)
(* Plain(chars).                                                           *)
(***************************************************************************)
Plain(chars) == [plain |-> chars]

\* the template files process_email names, all present in jinja_emails/
TemplateDir == {"email_unknown_intent.j2", "email_system_error.j2",
                "email_invalid_format.j2", "email_base.j2",
                "email_order_status.j2", "email_request_info.j2"}

render(template_name, context) ==
    IF template_name \in TemplateDir
    THEN [template |-> template_name, context |-> context]
    ELSE Plain(<<"S", "y", "s", "t", "e", "m", " ", "E", "r", "r", "o", "r", ":", " ", "U", "n", "a", "b", "l", "e", " ", "t", "o", " ", "g", "e", "n", "e", "r", "a", "t", "e", " ", "r", "e", "s", "p", "o", "n", "s", "e", ".">>)


(***************************************************************************)
(* TicketManager: the store and its file                                   *)
(*                                                                         *)
(* A manager is [tickets, writes, uuid, heap]: the dict self.tickets, the  *)
(* documents this call has written to storage_file so far (each write      *)
(* replaces the file), the next uuid, and the objects a ticket can share   *)
(* with the flow manager: heap = [intent_config, mock_db, aliased], the    *)
(* configuration and the catalogs as they are now, and the users whose     *)
(* ticket's missing_fields is the required_entities list object of the     *)
(* configuration entry of its intent.                                      *)
(***************************************************************************)
\* Ticket.__init__ keeps `missing_fields or []`: a non-empty list argument is
\* kept as the object it is
KeepsList(mgr, user_id, list) ==
    [mgr EXCEPT !.heap.aliased = IF list # << >> THEN @ \cup {user_id} ELSE @ \ {user_id}]

\* `self.missing_fields = [...]` in update_entities, under `if
\* self.missing_fields`: the attribute is bound to a new list
Rebound(mgr, user_id) ==
    IF mgr.tickets[user_id].missing_fields # << >>
    THEN [mgr EXCEPT !.heap.aliased = @ \ {user_id}]
    ELSE mgr

\* the file's content: no file, a complete JSON document, or a proper prefix
\* of one (open(.., 'w') truncated the file and json.dump had not finished)
NoFile == [kind |-> "absent", data |-> EmptyDict]

Document(data) == [kind |-> "json", data |-> data]

TornFile == [kind |-> "torn", data |-> EmptyDict]

\* the dict json.dump writes
Snapshot(tickets) == [u \in DOMAIN tickets |-> to_dict(tickets[u])]

_save_tickets(mgr) == [mgr EXCEPT !.writes = Append(@, Document(Snapshot(mgr.tickets)))]

\* json.load raises on a proper prefix of a document: the except branch returns {}
_load_tickets(file, uuid, now) ==
    IF file.kind = "json"
    THEN [u \in DOMAIN file.data |-> from_dict(file.data[u], uuid, now)]
    ELSE EmptyDict

Remove(d, k) == [x \in DOMAIN d \ {k} |-> d[x]]

\* the ticket object is the one in the dict: a mutation of it is a mutation of
\* the store, saved or not
Mutate(mgr, user_id, ticket) ==
    [mgr EXCEPT !.tickets = Update(mgr.tickets, (user_id :> ticket))]

\* create_ticket replacing the dict by one that holds the new ticket only
create_ticket_exclusive(mgr, user_id, intent, mood, entities, missing_fields, severity, now) ==
    _save_tickets([mgr EXCEPT !.tickets = (user_id :> Ticket(user_id, intent, mood, entities,
                                                             missing_fields, severity,
                                                             mgr.uuid, now)),
                              !.uuid = @ + 1])

create_ticket(mgr, user_id, intent, mood, entities, missing_fields, severity, now) ==
    _save_tickets([Mutate(mgr, user_id,
                          Ticket(user_id, intent, mood, entities, missing_fields,
                                 severity, mgr.uuid, now))
                   EXCEPT !.uuid = @ + 1])

get_ticket(mgr, user_id) == Get(mgr.tickets, user_id)

update_ticket(mgr, ticket) == _save_tickets(Mutate(mgr, ticket.user_id, ticket))

\* close_ticket saving before its del: the file keeps the closed ticket
close_ticket_saved_first(mgr, user_id) ==
    IF user_id \in DOMAIN mgr.tickets
    THEN [_save_tickets(mgr) EXCEPT !.tickets = Remove(@, user_id)]
    ELSE mgr

\* close_ticket without its _save_tickets: the file keeps the closed ticket
close_ticket_unsaved(mgr, user_id) ==
    IF user_id \in DOMAIN mgr.tickets
    THEN [mgr EXCEPT !.tickets = Remove(@, user_id)]
    ELSE mgr

close_ticket(mgr, user_id) ==
    IF user_id \in DOMAIN mgr.tickets
    THEN _save_tickets([mgr EXCEPT !.tickets = Remove(@, user_id)])
    ELSE mgr

(***************************************************************************)
(* FlowManager.process_email (m09_flow_manager.py)                         *)
(*                                                                         *)
(* The inputs of a call: the user, the message msg = [text, faq, sim, l1]  *)
(* (the text with what the FAQ matcher and the two models compute for it)  *)
(* and `fault`, whether the dispatcher's call fails (the database          *)
(* connection fails, as the system-error test injects).                    *)
(* The outcome: [mgr, reply, dispatch], reply the returned text or the     *)
(* exception that left the call, dispatch None or the one call of          *)
(* process_request with its outcome.                                       *)
(***************************************************************************)
Outcome(mgr, reply, dispatch) == [mgr |-> mgr, reply |-> reply, dispatch |-> dispatch]

DidNotUnderstand == Plain(<<"I", "'", "m", " ", "s", "o", "r", "r", "y", ",", " ", "I", " ", "d", "i", "d", "n", "'", "t", " ", "u", "n", "d", "e", "r", "s", "t", "a", "n", "d", " ", "t", "h", "a", "t", " ", "r", "e", "q", "u", "e", "s", "t", ".", " ", "C", "o", "u", "l", "d", " ", "y", "o", "u", " ", "r", "e", "p", "h", "r", "a", "s", "e", "?">>)

\* user_id.split('@')[0].title() for the users of the model
UserName == [u \in {"bob@example.com", "amy@example.com"} |->
                IF u = "bob@example.com" THEN "Bob" ELSE "Amy"]

\* STEP 1 with a hit that also logs the text on the user's ticket and saves it
FaqReplyLogged(mgr, user_id, text, faq_match, now) ==
    Outcome(IF user_id \in DOMAIN mgr.tickets
            THEN update_ticket(mgr, add_message(mgr.tickets[user_id], "user", Plain(text), now))
            ELSE mgr,
            Ret(Plain(faq_match.answer)), None)

\* STEP 1 with a hit: return faq_match['answer']
FaqReply(mgr, user_id, text, faq_match, now) ==
    Outcome(mgr, Ret(Plain(faq_match.answer)), None)

TemplateFor(intent) ==
    IF intent = "order_status_inquiry" THEN "email_order_status.j2" ELSE "email_base.j2"

SystemError(ticket) ==
    render("email_system_error.j2", [context |-> [ticket_id |-> ticket.ticket_id]])

\* a try block without its except clause: the exception leaves process_email
ExceptBranchReraise(mgr, ticket, call, disp) == Outcome(mgr, call, disp)

\* `except Exception as e`: the system-error template is returned
ExceptBranch(mgr, ticket, call, disp) == Outcome(mgr, Ret(SystemError(ticket)), disp)

\* the call of process_request in the try block; fault: the call raises
Dispatch(intent_config, db, ticket, fault) ==
    IF fault THEN Raise("Exception")
    ELSE process_request(intent_config, db, ticket.intent, ticket.extracted_entities)

\* what the dispatcher was called with, and what the call gave
DispatchRecord(ticket, call) ==
    Some([intent |-> ticket.intent, entities |-> ticket.extracted_entities, outcome |-> call])

\* context["data"].update(action_result["data"]): context["data"] is
\* ticket.extracted_entities itself
Merged(ticket, action_result) ==
    [ticket EXCEPT !.extracted_entities = Update(@, action_result.data)]

\* the template and status RESOLVED without close_ticket: the resolved ticket
\* is saved and stays in the store
ResolveKept(mgr, user_id, ticket, state, disp) ==
    Outcome(update_ticket(mgr, [ticket EXCEPT !.status = "RESOLVED"]),
            Ret(render(TemplateFor(ticket.intent),
                       [user_name |-> UserName[user_id], mood |-> ticket.mood,
                        data |-> ticket.extracted_entities,
                        missing_fields |-> ticket.missing_fields, state |-> state])),
            disp)

\* the template, status RESOLVED and close_ticket: both branches of
\* `if action_result["state"] == "success"` close
Resolve(mgr, user_id, ticket, state, disp) ==
    Outcome(close_ticket(Mutate(mgr, user_id, [ticket EXCEPT !.status = "RESOLVED"]), user_id),
            Ret(render(TemplateFor(ticket.intent),
                       [user_name |-> UserName[user_id], mood |-> ticket.mood,
                        data |-> ticket.extracted_entities,
                        missing_fields |-> ticket.missing_fields, state |-> state])),
            disp)

\* the try block without its invalid_format branch: the result goes on to the
\* template of the intent and to close_ticket
OnResultClosing(mgr, user_id, ticket, action_result, disp) ==
    IF action_result.state = "error" THEN Outcome(mgr, Ret(SystemError(ticket)), disp)
    ELSE Resolve(mgr, user_id, ticket, action_result.state, disp)

\* the invalid_format branch asking for the slot again: the rejected value is
\* dropped and order_id is missing once more
OnResultReopening(mgr, user_id, ticket, action_result, disp) ==
    IF action_result.state = "error" THEN Outcome(mgr, Ret(SystemError(ticket)), disp)
    ELSE IF action_result.state = "invalid_format"
    THEN Outcome(update_ticket(mgr, [ticket EXCEPT
                                        !.extracted_entities = Remove(@, "order_id"),
                                        !.missing_fields = <<"order_id">>]),
                 Ret(render("email_invalid_format.j2",
                            [data |-> [field_name |-> action_result.missing[1][1]]])),
                 disp)
    ELSE Resolve(mgr, user_id, ticket, action_result.state, disp)

\* the error branch closing the ticket it answers for
OnResultErrorCloses(mgr, user_id, ticket, action_result, disp) ==
    IF action_result.state = "error"
    THEN Outcome(close_ticket(mgr, user_id), Ret(SystemError(ticket)), disp)
    ELSE IF action_result.state = "invalid_format"
    THEN Outcome(mgr,
                 Ret(render("email_invalid_format.j2",
                            [data |-> [field_name |-> action_result.missing[1][1]]])),
                 disp)
    ELSE Resolve(mgr, user_id, ticket, action_result.state, disp)

\* the try block after the update of the context, for the merged ticket.
\* action_result.get("missing", ["Unknown"])[0] of an empty list is an
\* IndexError inside the try block.
OnResult(mgr, user_id, ticket, action_result, disp) ==
    IF action_result.state = "error" THEN Outcome(mgr, Ret(SystemError(ticket)), disp)
    ELSE IF action_result.state = "invalid_format"
    THEN LET missing == IF action_result.missing = None
                        THEN <<<<"U", "n", "k", "n", "o", "w", "n">>>> ELSE action_result.missing[1]
         IN  IF missing = << >> THEN ExceptBranch(mgr, ticket, Raise("IndexError"), disp)
             ELSE Outcome(mgr,
                          Ret(render("email_invalid_format.j2",
                                     [data |-> [field_name |-> missing[1]]])),
                          disp)
    ELSE Resolve(mgr, user_id, ticket, action_result.state, disp)

\* the try block from the return (or the exception) of process_request on
AfterCall(mgr, user_id, ticket, call, disp) ==
    IF call.raised THEN ExceptBranch(mgr, ticket, call, disp)
    ELSE OnResult(Mutate(mgr, user_id, Merged(ticket, call.value)), user_id,
                  Merged(ticket, call.value), call.value, disp)

WithCall(mgr, user_id, ticket, call) ==
    AfterCall(mgr, user_id, ticket, call, DispatchRecord(ticket, call))

\* STEP 4 with a complete ticket: the try block, the template, the close
ExecuteAction(mgr, intent_config, db, user_id, fault, now) ==
    WithCall(mgr, user_id, mgr.tickets[user_id],
             Dispatch(intent_config, db, mgr.tickets[user_id], fault))

\* STEP 4 with an incomplete ticket, without its update_ticket
RequestInfoUnsaved(mgr, user_id, now) ==
    LET ticket   == [mgr.tickets[user_id] EXCEPT !.status = "PENDING_CUSTOMER"]
        context  == [user_name |-> UserName[user_id], mood |-> ticket.mood,
                     data |-> ticket.extracted_entities,
                     missing_fields |-> ticket.missing_fields]
        response == render("email_request_info.j2", context)
    IN  Outcome(Mutate(mgr, user_id, add_message(ticket, "bot", response, now)),
                Ret(response), None)

\* STEP 4 with an incomplete ticket, the bot message logged before the save
RequestInfoLoggedFirst(mgr, user_id, now) ==
    LET ticket   == [mgr.tickets[user_id] EXCEPT !.status = "PENDING_CUSTOMER"]
        context  == [user_name |-> UserName[user_id], mood |-> ticket.mood,
                     data |-> ticket.extracted_entities,
                     missing_fields |-> ticket.missing_fields]
        response == render("email_request_info.j2", context)
    IN  Outcome(update_ticket(mgr, add_message(ticket, "bot", response, now)),
                Ret(response), None)

\* STEP 4 with an incomplete ticket, and the bot message
RequestInfo(mgr, user_id, now) ==
    LET ticket   == [mgr.tickets[user_id] EXCEPT !.status = "PENDING_CUSTOMER"]
        mgr1     == update_ticket(mgr, ticket)
        context  == [user_name |-> UserName[user_id], mood |-> ticket.mood,
                     data |-> ticket.extracted_entities,
                     missing_fields |-> ticket.missing_fields]
        response == render("email_request_info.j2", context)
    IN  Outcome(Mutate(mgr1, user_id, add_message(ticket, "bot", response, now)),
                Ret(response), None)

\* update_entities removing the found slots from the list in place: the list
\* is the one of the configuration while the ticket shares it
FilledInPlace(mgr, user_id, extracted, now) ==
    IF DOMAIN extracted # {}
    THEN update_ticket(IF user_id \in mgr.heap.aliased
                       THEN [mgr EXCEPT !.heap.intent_config[mgr.tickets[user_id].intent].required_entities =
                                           FilterOut(@, DOMAIN extracted)]
                       ELSE mgr,
                       update_entities(mgr.tickets[user_id], extracted, now))
    ELSE mgr

\* `if extracted: ticket.update_entities(extracted); update_ticket(ticket)`
Filled(mgr, user_id, extracted, now) ==
    IF DOMAIN extracted # {}
    THEN update_ticket(Rebound(mgr, user_id),
                       update_entities(mgr.tickets[user_id], extracted, now))
    ELSE mgr

\* STEP 3 extracting every slot from the text, the filled ones included
SlotFillAllSlots(mgr, db, user_id, text, now) ==
    Filled(mgr, user_id, run_extraction(text, <<"order_id", "email", "product_name">>, db), now)

\* STEP 3: extraction of the missing fields from the text
SlotFill(mgr, db, user_id, text, now) ==
    IF mgr.tickets[user_id].missing_fields # << >>
    THEN Filled(mgr, user_id,
                run_extraction(text, mgr.tickets[user_id].missing_fields, db), now)
    ELSE mgr

\* STEP 4: `if ticket.is_complete()`
Decide(mgr, intent_config, db, user_id, fault, now) ==
    IF is_complete(mgr.tickets[user_id])
    THEN ExecuteAction(mgr, intent_config, db, user_id, fault, now)
    ELSE RequestInfo(mgr, user_id, now)

\* STEP 4 deciding on the ticket as it was before STEP 3
DecideStale(before, mgr, intent_config, db, user_id, fault, now) ==
    IF is_complete(before.tickets[user_id])
    THEN ExecuteAction(mgr, intent_config, db, user_id, fault, now)
    ELSE RequestInfo(mgr, user_id, now)

SlotFillAndDecideStale(mgr, intent_config, db, user_id, text, fault, now) ==
    DecideStale(mgr, SlotFill(mgr, db, user_id, text, now),
                intent_config, db, user_id, fault, now)

\* STEP 3 and STEP 4, for the ticket of user_id in the store
SlotFillAndDecide(mgr, intent_config, db, user_id, text, fault, now) ==
    Decide(SlotFill(mgr, db, user_id, text, now), intent_config, db, user_id, fault, now)

\* the FAQ fallback closing the ticket it has just created
HumanHandoffClosed(mgr, user_id, text, mood, now) ==
    LET severity == calculate_severity(mood)
        mgr1 == create_ticket(mgr, user_id, "human_handoff", mood,
                              ("query" :> text), << >>, severity, now)
        ticket == mgr1.tickets[user_id]
    IN  Outcome(close_ticket(mgr1, user_id),
                Ret(render("email_unknown_intent.j2",
                           [context |-> [ticket_id |-> ticket.ticket_id,
                                         severity |-> severity]])),
                None)

\* the FAQ fallback: the human_handoff ticket and the immediate return
HumanHandoff(mgr, user_id, text, mood, now) ==
    LET severity == calculate_severity(mood)
        mgr1 == create_ticket(mgr, user_id, "human_handoff", mood,
                              ("query" :> text), << >>, severity, now)
        ticket == mgr1.tickets[user_id]
    IN  Outcome(Mutate(mgr1, user_id, add_message(ticket, "user", Plain(text), now)),
                Ret(render("email_unknown_intent.j2",
                           [context |-> [ticket_id |-> ticket.ticket_id,
                                         severity |-> severity]])),
                None)

\* ticket.add_message("user", text) on the ticket in the store
Logged(mgr, user_id, text, now) ==
    Mutate(mgr, user_id, add_message(mgr.tickets[user_id], "user", Plain(text), now))

\* ticket.mood = mood with the severity computed again from it
WithMoodAndSeverity(mgr, user_id, mood) ==
    Mutate(mgr, user_id, [mgr.tickets[user_id] EXCEPT !.mood = mood,
                                                      !.severity = calculate_severity(mood)])

\* ticket.mood = mood
WithMood(mgr, user_id, mood) ==
    Mutate(mgr, user_id, [mgr.tickets[user_id] EXCEPT !.mood = mood])

\* the standard flow creating its ticket with no missing field
OpenedComplete(mgr, intent_config, user_id, text, intent, mood, now) ==
    Logged(create_ticket(mgr, user_id, intent, mood, EmptyDict, << >>,
                         calculate_severity(mood), now),
           user_id, text, now)

\* the standard flow's create_ticket and the first message
Opened(mgr, intent_config, user_id, text, intent, mood, now) ==
    Logged(KeepsList(create_ticket(mgr, user_id, intent, mood, EmptyDict,
                                   intent_config[intent].required_entities,
                                   calculate_severity(mood), now),
                     user_id, intent_config[intent].required_entities),
           user_id, text, now)

\* `if not config` answered after a ticket was created for the intent
NoConfigTicketed(mgr, user_id, intent, mood, now) ==
    Outcome(create_ticket(mgr, user_id, intent, mood, EmptyDict, << >>,
                          calculate_severity(mood), now),
            Ret(DidNotUnderstand), None)

\* `if not config: return "I'm sorry, ..."`: before any create_ticket
NoConfig(mgr, user_id, intent, mood, now) == Outcome(mgr, Ret(DidNotUnderstand), None)

\* STEP 2 and what follows.  intent: what predict returns for the text, used
\* only when the user has no ticket; mood: what predict_mood returns or raises,
\* after the message is logged on an existing ticket.
TicketAndIntent(mgr, intent_config, db, user_id, text, intent, mood, fault, now) ==
    IF get_ticket(mgr, user_id) # None
    THEN IF mood.raised THEN Outcome(Logged(mgr, user_id, text, now), mood, None)
         ELSE SlotFillAndDecide(WithMood(Logged(mgr, user_id, text, now), user_id, mood.value),
                                intent_config, db, user_id, text, fault, now)
    ELSE IF mood.raised THEN Outcome(mgr, mood, None)
    ELSE IF intent = "general_faq_question" \/ intent = "unknown"
    THEN HumanHandoff(mgr, user_id, text, mood.value, now)
    ELSE IF intent \notin DOMAIN intent_config
    THEN NoConfig(mgr, user_id, intent, mood.value, now)
    ELSE SlotFillAndDecide(Opened(mgr, intent_config, user_id, text, intent, mood.value, now),
                           intent_config, db, user_id, text, fault, now)

process_email(mgr, cls, intent_config, db, user_id, msg, fault, now) ==
    IF msg.faq # None THEN FaqReply(mgr, user_id, msg.text, msg.faq[1], now)
    ELSE TicketAndIntent(mgr, intent_config, db, user_id, msg.text,
                         predict(cls, msg.sim)[1],
                         predict_mood(cls, msg.text, msg.l1), fault, now)


(***************************************************************************)
(* The configuration and the catalogs (config/*.json, read once by         *)
(* DataLoader.load_configs) and the messages of the model                  *)
(***************************************************************************)
Users == {"bob@example.com", "amy@example.com"}

\* one entry per intent the classifier knows, and no human_handoff entry
ConfigStandard ==
    [order_status_inquiry |-> [required_entities |-> <<"order_id">>, action_type |-> "lookup_order"],
     inventory_stock_availability |-> [required_entities |-> <<"product_name">>, action_type |-> "check_stock"],
     product_information_question |-> [required_entities |-> <<"product_name">>, action_type |-> "get_product_info"],
     account_password_reset |-> [required_entities |-> <<"email">>, action_type |-> "trigger_reset"],
     general_faq_question |-> [required_entities |-> << >>, action_type |-> "general_reply"]]

\* an order inquiry that needs two slots, an action type the dispatcher does not
\* know, an entry for human_handoff that requires the sender's address, and
\* no entry for the stock intents
ConfigVariant ==
    [order_status_inquiry |-> [required_entities |-> <<"order_id", "email">>, action_type |-> "lookup_order"],
     account_password_reset |-> [required_entities |-> <<"email">>, action_type |-> "send_reset_link"],
     human_handoff |-> [required_entities |-> <<"email">>, action_type |-> "general_reply"]]

Configs == {ConfigStandard, ConfigVariant}

\* what IntentClassifier.__init__ can find under models/: everything loads; the
\* SetFit directory is absent and the sentence transformer fails to load; the
\* two joblib files are absent
LoadOutcomes ==
    {[files |-> TRUE,  mood_path |-> TRUE,  setfit |-> TRUE,  embedder |-> TRUE],
     [files |-> TRUE,  mood_path |-> FALSE, setfit |-> TRUE,  embedder |-> FALSE],
     [files |-> FALSE, mood_path |-> TRUE,  setfit |-> TRUE,  embedder |-> TRUE]}

FaqReturns == [id |-> "return_policy", answer |-> <<"R", "e", "t", "u", "r", "n", "s", " ", "a", "r", "e", " ", "a", "c", "c", "e", "p", "t", "e", "d", " ", "w", "i", "t", "h", "i", "n", " ", "3", "0", " ", "d", "a", "y", "s", ".">>]

\* predict_proba: the probabilities of Angry, Confused, Happy, Neutral, Urgent
Probs(angry, confused, happy, neutral, urgent) ==
    [error |-> FALSE, probs |-> <<angry, confused, happy, neutral, urgent>>]

ProbaFails == [error |-> TRUE, probs |-> <<0, 0, 0, 0, 0>>]

Message(text, faq, sim, l1) == [text |-> text, faq |-> faq, sim |-> sim, l1 |-> l1]

\* sim: the similarity to the anchors of IntentLabels, in order
Messages ==
    { Message(TextOrder1001,
              None, <<80, 10, 10, 10, 10>>, Probs(30, 10, 10, 40, 10)),
      Message(TextOrderNoId,
              None, <<80, 10, 10, 10, 10>>, Probs(10, 10, 60, 10, 10)),
      Message(TextFollowUp,
              None, <<24, 10, 10, 10, 10>>, Probs(5, 5, 10, 10, 70)),
      Message(TextOrderWord,
              None, <<60, 10, 10, 10, 60>>, ProbaFails),
      Message(TextReturnPolicy,
              Some(FaqReturns), <<10, 10, 10, 10, 90>>, Probs(0, 10, 0, 90, 0)),
      Message(TextReset,
              None, <<10, 10, 10, 80, 10>>, Probs(0, 50, 0, 50, 0)),
      Message(TextMars,
              None, <<10, 10, 10, 10, 25>>, Probs(20, 10, 10, 49, 11)),
      Message(TextStock,
              None, <<10, 70, 70, 10, 10>>, Probs(55, 10, 10, 10, 15)) }

\* the calls of process_email the model follows
MaxTurns == 2

\* the calls followed in one process lifetime, where a user's follow-up can
\* come after another user's call
MaxInterleaved == 3

(***************************************************************************)
(* The state                                                               *)
(***************************************************************************)
VARIABLES
    tickets,        \* TicketManager.tickets
    file,           \* the content of storage_file
    uuid,           \* the next ticket id
    clock,          \* the calls so far; datetime.now() of the current call
    models,         \* what is under models/ (static): what loading finds
    classifier,     \* the IntentClassifier the flow manager built
    intent_config,  \* FlowManager.intent_config and StateManager.intent_config
    mock_db,        \* FlowManager.mock_db and StateManager.db
    up,             \* the process is running
    last            \* the last step: the call's inputs, what it returned, and
                    \* the store and the file as they were when it began
VARIABLES
    solo,           \* per user, the run in which only that user's calls are
                    \* made, with the same ids and clock readings: its store,
                    \* its file and the reply of its last call
    aliased         \* the users whose ticket's missing_fields is the
                    \* required_entities list object of the configuration

vars == <<tickets, file, uuid, clock, models, classifier, intent_config, mock_db, up, last, solo, aliased>>

NoMessage == Message(<< >>, None, <<0, 0, 0, 0, 0>>, ProbaFails)

\* writes: the number of times the call wrote storage_file; torn: None, or the
\* file as it was before the interrupted write and as the write would have left it
Step(op, user_id, msg, reply, dispatch, writes, torn) ==
    [op |-> op, user_id |-> user_id, msg |-> msg, reply |-> reply,
     dispatch |-> dispatch, writes |-> writes, torn |-> torn,
     before |-> [tickets |-> tickets, file |-> file, aliased |-> aliased]]

Init ==
    /\ file = NoFile
    /\ tickets = _load_tickets(NoFile, 0, 0)
    /\ uuid = 1
    /\ clock = 0
    /\ models \in LoadOutcomes
    /\ classifier = IntentClassifierInit(models)
    /\ intent_config \in Configs
    /\ mock_db = MockDb
    /\ up = TRUE
    /\ last = [op |-> "init", user_id |-> "", msg |-> NoMessage,
               reply |-> Ret(Plain(<< >>)), dispatch |-> None, writes |-> 0,
               torn |-> None,
               before |-> [tickets |-> EmptyDict, file |-> NoFile, aliased |-> {}]]
    /\ aliased = {}
    /\ solo = [u \in Users |-> [tickets |-> _load_tickets(NoFile, 0, 0), file |-> NoFile,
                                reply |-> Ret(Plain(<< >>))]]

\* the configuration, the catalogs and the shared lists as the call finds them
Heap == [intent_config |-> intent_config, mock_db |-> mock_db, aliased |-> aliased]

Manager == [tickets |-> tickets, writes |-> << >>, uuid |-> uuid, heap |-> Heap]

\* the manager of the run of user_id alone, drawing the same ticket id
SoloManager(user_id) ==
    [tickets |-> solo[user_id].tickets, writes |-> << >>, uuid |-> uuid, heap |-> Heap]

\* a call of process_email that runs to its return or to its exception, among
\* the first `limit` calls
Call(limit, user_id, msg, fault) ==
    /\ up
    /\ clock < limit
    /\ \E out \in {process_email(Manager, classifier, intent_config, mock_db,
                                 user_id, msg, fault, clock + 1)} :
           /\ tickets' = out.mgr.tickets
           /\ uuid' = out.mgr.uuid
           /\ file' = IF out.mgr.writes = << >> THEN file
                      ELSE out.mgr.writes[Len(out.mgr.writes)]
           /\ last' = Step("process_email", user_id, msg, out.reply, out.dispatch,
                           Len(out.mgr.writes), None)
           /\ intent_config' = out.mgr.heap.intent_config
           /\ mock_db' = out.mgr.heap.mock_db
           /\ aliased' = out.mgr.heap.aliased \cap DOMAIN out.mgr.tickets
    /\ \E alone \in {process_email(SoloManager(user_id), classifier, intent_config,
                                   mock_db, user_id, msg, fault, clock + 1)} :
           solo' = [solo EXCEPT ![user_id] =
                       [tickets |-> alone.mgr.tickets,
                        file |-> IF alone.mgr.writes = << >> THEN @.file
                                 ELSE alone.mgr.writes[Len(alone.mgr.writes)],
                        reply |-> alone.reply]]
    /\ clock' = clock + 1
    /\ UNCHANGED <<models, classifier, up>>

ProcessEmail(user_id, msg, fault) == Call(MaxTurns, user_id, msg, fault)

\* the process dies inside the k-th write of a call: after open(.., 'w') and
\* before json.dump has written the whole document
CrashInWrite(user_id, msg, fault) ==
    /\ up
    /\ clock < MaxTurns
    /\ \E out \in {process_email(Manager, classifier, intent_config, mock_db,
                                 user_id, msg, fault, clock + 1)} :
           /\ out.mgr.writes # << >>
           /\ \E k \in DOMAIN out.mgr.writes :
                 last' = Step("crash", user_id, msg, Raise("killed"), None, k,
                              Some([before |-> IF k = 1 THEN file ELSE out.mgr.writes[k - 1],
                                    after  |-> out.mgr.writes[k]]))
           /\ uuid' = out.mgr.uuid
    /\ file' = TornFile
    /\ tickets' = EmptyDict
    /\ solo' = [u \in Users |->
                   [tickets |-> EmptyDict,
                    file |-> IF u = user_id THEN TornFile ELSE solo[u].file,
                    reply |-> IF u = user_id THEN Raise("killed") ELSE solo[u].reply]]
    /\ up' = FALSE
    /\ aliased' = {}
    /\ clock' = clock + 1
    /\ UNCHANGED <<models, classifier, intent_config, mock_db>>

\* FlowManager.__init__ in a new process: the models are loaded again and the
\* ticket manager loads storage_file
Restart ==
    /\ tickets' = _load_tickets(file, uuid, clock)
    /\ solo' = [u \in Users |->
                   [solo[u] EXCEPT !.tickets = _load_tickets(solo[u].file, uuid, clock)]]
    /\ classifier' = IntentClassifierInit(models)
    /\ up' = TRUE
    /\ aliased' = {}
    /\ last' = Step("restart", "", NoMessage, Ret(Plain(<< >>)), None, 0,
                    IF last.op = "crash" THEN last.torn ELSE None)
    /\ UNCHANGED <<file, uuid, clock, models, intent_config, mock_db>>

Next ==
    \/ \E user_id \in Users, msg \in Messages, fault \in BOOLEAN : ProcessEmail(user_id, msg, fault)
    \/ Restart

Spec == Init /\ [][Next]_vars

\* one process lifetime: calls of process_email only, in any interleaving of
\* the users
InterleavedTurn(user_id, msg, fault) == Call(MaxInterleaved, user_id, msg, fault)

NextTurns ==
    \E user_id \in Users, msg \in Messages, fault \in BOOLEAN : InterleavedTurn(user_id, msg, fault)

SpecTurns == Init /\ [][NextTurns]_vars

\* the same with a process that can die while it writes storage_file
NextCrash ==
    \/ \E user_id \in Users, msg \in Messages, fault \in BOOLEAN : ProcessEmail(user_id, msg, fault)
    \/ \E user_id \in Users, msg \in Messages, fault \in BOOLEAN : CrashInWrite(user_id, msg, fault)
    \/ Restart

SpecCrash == Init /\ [][NextCrash]_vars

(***************************************************************************)
(* The TicketManager driven directly, as the persistence test under        *)
(* `if __name__ == "__main__"` of m04_ticket_manager.py drives it: tickets *)
(* are created, mutated through the Ticket methods (saved by update_ticket *)
(* or left unsaved), closed, and loaded by a new TicketManager.             *)
(***************************************************************************)
\* the calls of the TicketManager the model follows
MaxStoreOps == 3

StoreIntents == {"order_status_inquiry", "human_handoff"}

StoreMoods == {"Neutral", "Angry", "Confused"}

\* the entities a caller passes to Ticket.update_entities
StoreEntities ==
    {("order_id" :> <<"1", "0", "0", "1">>),
     ("email" :> <<"b", "o", "b", "@", "e", "x", "a", "m", "p", "l", "e", ".", "c", "o", "m">>)}

StoreStep(op, user_id, mgr) ==
    /\ tickets' = mgr.tickets
    /\ uuid' = mgr.uuid
    /\ file' = IF mgr.writes = << >> THEN file ELSE mgr.writes[Len(mgr.writes)]
    /\ last' = Step(op, user_id, NoMessage, Ret(Plain(<< >>)), None, Len(mgr.writes), None)
    /\ clock' = clock + 1
    /\ UNCHANGED <<models, classifier, intent_config, mock_db, up, solo, aliased>>

CreateTicket(user_id, intent, mood) ==
    /\ up
    /\ clock < MaxStoreOps
    /\ StoreStep("create_ticket", user_id,
                 create_ticket(Manager, user_id, intent, mood, EmptyDict,
                               IF intent \in DOMAIN intent_config
                               THEN intent_config[intent].required_entities ELSE << >>,
                               calculate_severity(mood), clock + 1))

\* ticket.update_entities(..) and ticket.add_message(..), then update_ticket
UpdateTicket(user_id, new_entities) ==
    /\ up
    /\ clock < MaxStoreOps
    /\ user_id \in DOMAIN tickets
    /\ StoreStep("update_ticket", user_id,
                 update_ticket(Manager,
                               add_message(update_entities(tickets[user_id], new_entities, clock + 1),
                                           "user", Plain(TextFollowUp), clock + 1)))

\* a ticket object mutated and not saved: a message and a status
TouchTicket(user_id) ==
    /\ up
    /\ clock < MaxStoreOps
    /\ user_id \in DOMAIN tickets
    /\ StoreStep("touch", user_id,
                 Mutate(Manager, user_id,
                        [add_message(tickets[user_id], "bot", Plain(TextFollowUp), clock + 1)
                         EXCEPT !.status = "PENDING_CUSTOMER"]))

CloseTicket(user_id) ==
    /\ up
    /\ clock < MaxStoreOps
    /\ StoreStep("close_ticket", user_id, close_ticket(Manager, user_id))

NextStore ==
    \/ \E user_id \in Users, intent \in StoreIntents, mood \in StoreMoods :
          CreateTicket(user_id, intent, mood)
    \/ \E user_id \in Users, new_entities \in StoreEntities : UpdateTicket(user_id, new_entities)
    \/ \E user_id \in Users : TouchTicket(user_id)
    \/ \E user_id \in Users : CloseTicket(user_id)
    \/ Restart

SpecStore == Init /\ [][NextStore]_vars

(***************************************************************************)
(* The StateManager called directly: process_request(intent,               *)
(* extracted_data) for the intents and the entity dicts a caller can pass, *)
(* a slot with an empty value included.                                    *)
(***************************************************************************)
RequestIntents ==
    {"order_status_inquiry", "inventory_stock_availability", "account_password_reset",
     "general_faq_question", "human_handoff", "unknown"}

RequestSlots == {"order_id", "email", "product_name"}

\* the values of a slot: the empty str and a non-empty one
SlotValues == {<< >>, <<"1", "0", "0", "1">>}

\* the calls of process_request the model follows
MaxRequests == 1

\* order ids of each shape _validate_order_id tells apart: all digits (in the
\* catalog, and shorter than 4), "#", "ord-" in lower case, 4 characters with a
\* digit, no digit (in the catalog, and not), a digit in fewer than 4
OrderIds ==
    {<<"1", "0", "0", "1">>, <<"1", "2">>, <<"#", "1">>, <<"o", "r", "d", "-", "x">>,
     <<"A", "B", "1", "2">>, <<"s", "t", "a", "t", "u", "s">>, <<"a", "b", "c">>, <<"a", "1">>}

RequestEntities ==
    (UNION {[slots -> SlotValues] : slots \in SUBSET RequestSlots})
        \cup {("order_id" :> v) : v \in OrderIds}
        \cup {("order_id" :> v) @@ ("email" :> <<"b", "o", "b", "@", "e", "x", "a", "m", "p", "l", "e", ".", "c", "o", "m">>) : v \in OrderIds}

ProcessRequest(intent, extracted_data) ==
    /\ up
    /\ clock < MaxRequests
    /\ clock' = clock + 1
    /\ last' = Step("process_request", "", NoMessage, Ret(Plain(<< >>)),
                    DispatchRecord([intent |-> intent, extracted_entities |-> extracted_data],
                                   process_request(intent_config, mock_db, intent,
                                                   extracted_data)),
                    0, None)
    /\ UNCHANGED <<tickets, file, uuid, models, classifier, intent_config, mock_db, up, solo, aliased>>

NextRequest ==
    \E intent \in RequestIntents, extracted_data \in RequestEntities :
        ProcessRequest(intent, extracted_data)

SpecRequest == Init /\ [][NextRequest]_vars

(***************************************************************************)
(* The properties                                                          *)
(*                                                                         *)
(* Each is a predicate of the state a step leaves: `last` holds the        *)
(* step's inputs, its reply, its dispatch and the store as it was before.  *)
(***************************************************************************)
\* the last step was a call of process_email that ran to its end
Turn == last.op = "process_email"

\* that call returned a text
Replied == Turn /\ ~last.reply.raised

\* that call invoked the dispatcher
Dispatched == Turn /\ last.dispatch # None

\* the dispatcher returned a result with this state
DispatchReturned(state) ==
    /\ Dispatched
    /\ ~last.dispatch[1].outcome.raised
    /\ last.dispatch[1].outcome.value.state = state

\* the user's ticket is in the snapshot the file holds
Persisted(user_id) == file.kind = "json" /\ user_id \in DOMAIN file.data

\* C1: after any sequence of process_email calls, every ticket held in the
\* store lists no slot as missing that is a key of its extracted entities.
C1_MissingDisjointFromEntities ==
    \A u \in DOMAIN tickets :
        Range(tickets[u].missing_fields) \cap DOMAIN tickets[u].extracted_entities = {}

\* a ticket in the store after a turn filled one of its two slots
C1_Witness ==
    /\ Turn
    /\ \E u \in DOMAIN tickets :
          /\ tickets[u].missing_fields # << >>
          /\ DOMAIN tickets[u].extracted_entities # {}
          /\ \E f \in DOMAIN tickets[u].extracted_entities :
                InList(f, intent_config[tickets[u].intent].required_entities)

\* C2: whenever a turn's dispatch returns success or not_found, the user's
\* ticket is in neither the store nor the persisted snapshot when
\* process_email returns, and the file was written by the close.
C2_TerminalStateClosesTicket ==
    (DispatchReturned("success") \/ DispatchReturned("not_found"))
        => /\ Replied
           /\ last.user_id \notin DOMAIN tickets
           /\ file.kind = "json"
           /\ last.user_id \notin DOMAIN file.data

\* a follow-up whose order is not in the catalog: the ticket the file held
\* before the turn is gone from the store and from the file
C2_Witness ==
    /\ DispatchReturned("not_found")
    /\ last.before.file.kind = "json"
    /\ last.user_id \in DOMAIN last.before.file.data
    /\ last.user_id \in DOMAIN last.before.tickets
    /\ last.user_id \notin DOMAIN tickets
    /\ ~Persisted(last.user_id)

\* C3: if the dispatcher raises or returns state "error", process_email
\* returns the system-error template rendered for the ticket, raises
\* nothing, and the user's ticket is still in the store.
C3_DispatchFailureIsSystemError ==
    (Dispatched /\ (last.dispatch[1].outcome.raised \/ DispatchReturned("error")))
        => /\ Replied
           /\ last.user_id \in DOMAIN tickets
           /\ last.reply.value =
                 [template |-> "email_system_error.j2",
                  context  |-> [context |-> [ticket_id |-> tickets[last.user_id].ticket_id]]]
           /\ tickets[last.user_id].status # "RESOLVED"

\* the dispatcher raised in a turn, and the ticket is still there
C3_Witness ==
    /\ Dispatched
    /\ last.dispatch[1].outcome.raised
    /\ Replied
    /\ last.user_id \in DOMAIN tickets

\* C4: a classifier whose model loading failed never raises: predict returns
\* ("error", 0.0), predict_mood returns a mood label of the lexicon layer,
\* and a process_email turn with such a classifier ends with a reply.
C4_FailedLoadNeverRaises ==
    (Turn /\ ~classifier.embedder)
        => /\ predict(classifier, last.msg.sim) = <<"error", 0>>
           /\ ~predict_mood(classifier, last.msg.text, last.msg.l1).raised
           /\ Replied

\* the joblib files are absent and a turn without a FAQ hit ended with the
\* AttributeError of predict_mood
C4_Witness ==
    /\ Turn
    /\ ~models.files
    /\ last.msg.faq = None
    /\ last.reply = Raise("AttributeError")

\* C5: after a crash inside a write of the ticket store, startup loading
\* recovers the store as the file held it before the interrupted write or as
\* the write would have left it.
C5_CrashRecoversBeforeOrAfter ==
    (last.op = "restart" /\ last.torn # None)
        => Snapshot(tickets) \in {last.torn[1].before.data, last.torn[1].after.data}

\* a restart after a crash in a write over a file that held a ticket
C5_Witness ==
    /\ last.op = "restart"
    /\ last.torn # None
    /\ DOMAIN last.torn[1].before.data # {}
    /\ tickets = EmptyDict

\* C6: when the FAQ matcher returns a hit, process_email returns the entry's
\* answer verbatim and the store is as it was: no ticket created, mutated or
\* closed and no write of the file, also when the user has an active ticket.
C6_FaqHitLeavesStoreAlone ==
    (Turn /\ last.msg.faq # None)
        => /\ last.reply = Ret(Plain(last.msg.faq[1].answer))
           /\ tickets = last.before.tickets
           /\ file = last.before.file
           /\ last.writes = 0
           /\ ~Dispatched

\* a FAQ hit in a turn of a user who has an active ticket
C6_Witness ==
    /\ Turn
    /\ last.msg.faq # None
    /\ last.user_id \in DOMAIN last.before.tickets
    /\ last.before.tickets[last.user_id].history # << >>

\* the intent predict gives the last call's text
Classified == predict(classifier, last.msg.sim)[1]

\* the user had a ticket in the store when the last call began
HadTicket == last.user_id \in DOMAIN last.before.tickets

\* C7: for a user with no active ticket and no FAQ hit, when the classified
\* intent is general_faq_question or unknown the turn returns and leaves in
\* the store a ticket with intent human_handoff, no missing field, entities
\* {query: text} and the severity calculate_severity gives the mood.
C7_HandoffTicketCreatedAndKept ==
    (Turn /\ last.msg.faq = None /\ ~HadTicket
          /\ Classified \in {"general_faq_question", "unknown"})
        => /\ Replied
           /\ last.user_id \in DOMAIN tickets
           /\ LET ticket == tickets[last.user_id]
                  mood   == predict_mood(classifier, last.msg.text, last.msg.l1)
              IN  /\ ticket.intent = "human_handoff"
                  /\ ticket.missing_fields = << >>
                  /\ ticket.extracted_entities = ("query" :> last.msg.text)
                  /\ ticket.mood = mood.value
                  /\ ticket.severity = calculate_severity(mood.value)
                  /\ ticket.status = "OPEN"

\* a text below the similarity floor from a user without a ticket: the
\* handoff ticket is in the store
C7_Witness ==
    /\ Turn
    /\ last.msg.faq = None
    /\ ~HadTicket
    /\ Classified = "unknown"
    /\ last.user_id \in DOMAIN tickets
    /\ tickets[last.user_id].intent = "human_handoff"

\* C8: whenever process_email returns a reply and the user's ticket is in the
\* store at the end of the turn, the last entry of the ticket's history is
\* that reply with sender "bot".
C8_ReplyIsLastHistoryEntry ==
    (Replied /\ last.user_id \in DOMAIN tickets)
        => LET history == tickets[last.user_id].history
           IN  /\ history # << >>
               /\ history[Len(history)].sender = "bot"
               /\ history[Len(history)].text = last.reply.value

\* a handoff turn: the reply was returned, the ticket is in the store and its
\* history ends with the user's message
C8_Witness ==
    /\ Replied
    /\ last.user_id \in DOMAIN tickets
    /\ tickets[last.user_id].intent = "human_handoff"
    /\ LET history == tickets[last.user_id].history
       IN  history # << >> /\ history[Len(history)].sender = "user"

\* the last call reached STEP 3: no FAQ hit, a mood, and a ticket found or
\* created for an intent of the configuration
ReachedSlotFilling ==
    /\ Turn
    /\ last.msg.faq = None
    /\ ~predict_mood(classifier, last.msg.text, last.msg.l1).raised
    /\ \/ HadTicket
       \/ /\ Classified \notin {"general_faq_question", "unknown"}
          /\ Classified \in DOMAIN intent_config

\* the ticket's intent, missing fields and entities when STEP 3 began
PriorIntent ==
    IF HadTicket THEN last.before.tickets[last.user_id].intent ELSE Classified

PriorMissing ==
    IF HadTicket THEN last.before.tickets[last.user_id].missing_fields
    ELSE intent_config[Classified].required_entities

PriorEntities ==
    IF HadTicket THEN last.before.tickets[last.user_id].extracted_entities ELSE EmptyDict

\* what the turn's text fills, and what is missing after it
Found ==
    IF PriorMissing = << >> THEN EmptyDict
    ELSE run_extraction(last.msg.text, PriorMissing, mock_db)

StillMissing == SelectSeq(PriorMissing, LAMBDA f : f \notin DOMAIN Found)

\* C9: in any turn, with a new ticket or an existing one, the dispatcher is
\* invoked exactly when no field is missing after the turn's slot filling,
\* with the ticket's intent and the entities accumulated over all turns; a
\* dispatch that returns success leaves no ticket behind.
C9_DispatchedIffComplete ==
    /\ (Turn /\ ~ReachedSlotFilling) => ~Dispatched
    /\ ReachedSlotFilling
        => /\ Dispatched <=> StillMissing = << >>
           /\ Dispatched
               => /\ last.dispatch[1].intent = PriorIntent
                  /\ last.dispatch[1].entities = Update(PriorEntities, Found)
           /\ DispatchReturned("success") => last.user_id \notin DOMAIN tickets

\* a follow-up supplies the last missing slot of a PENDING_CUSTOMER ticket
\* and is dispatched with the slot of the earlier turn and its own
C9_Witness ==
    /\ ReachedSlotFilling
    /\ HadTicket
    /\ last.before.tickets[last.user_id].status = "PENDING_CUSTOMER"
    /\ PriorMissing # << >>
    /\ DOMAIN PriorEntities # {}
    /\ Dispatched
    /\ DOMAIN PriorEntities \subseteq DOMAIN last.dispatch[1].entities
    /\ DOMAIN Found # {}
    /\ DOMAIN Found \subseteq DOMAIN last.dispatch[1].entities
    /\ DispatchReturned("success")

\* C10: if a field is missing after a turn's slot filling, the dispatcher is
\* not invoked, the ticket is in the store with status PENDING_CUSTOMER, the
\* file holds it with that status, and its missing_fields are the required
\* slots of its intent that are not extracted, in order.
C10_IncompleteTicketPendsAndPersists ==
    (ReachedSlotFilling /\ StillMissing # << >>)
        => /\ ~Dispatched
           /\ Replied
           /\ last.user_id \in DOMAIN tickets
           /\ Persisted(last.user_id)
           /\ LET ticket == tickets[last.user_id]
                  saved  == file.data[last.user_id]
              IN  /\ ticket.status = "PENDING_CUSTOMER"
                  /\ saved.status = "PENDING_CUSTOMER"
                  /\ saved.missing_fields = ticket.missing_fields
                  /\ ticket.missing_fields =
                        SelectSeq(intent_config[ticket.intent].required_entities,
                                  LAMBDA f : f \notin DOMAIN ticket.extracted_entities)

\* an order inquiry without an id from a user without a ticket: the ticket
\* pends with missing_fields ["order_id"]
C10_Witness ==
    /\ ReachedSlotFilling
    /\ ~HadTicket
    /\ Classified = "order_status_inquiry"
    /\ last.user_id \in DOMAIN tickets
    /\ tickets[last.user_id].missing_fields = <<"order_id">>
    /\ tickets[last.user_id].status = "PENDING_CUSTOMER"
    /\ ~Dispatched

\* predict_mood returned a label for the last call's text
MoodReturned == ~predict_mood(classifier, last.msg.text, last.msg.l1).raised

\* the last call was for a user without a ticket, had no FAQ hit, and its
\* intent is not a handoff intent and has no entry in the configuration
UnconfiguredIntent ==
    /\ Turn
    /\ last.msg.faq = None
    /\ ~HadTicket
    /\ Classified \notin {"general_faq_question", "unknown"}
    /\ Classified \notin DOMAIN intent_config

FreshIds == {0, 7}

\* the last step was a create_ticket, an update_ticket or a close_ticket that
\* wrote storage_file
StoreWrite ==
    /\ last.op \in {"create_ticket", "update_ticket", "close_ticket"}
    /\ last.writes > 0

\* C12: after each create_ticket, update_ticket and close_ticket that saved, a
\* TicketManager constructed on the same storage file holds the users and the
\* ticket field values the in-memory store has at that moment.
C12_ReloadEqualsMemory ==
    StoreWrite => \A id \in FreshIds, now \in FreshIds : _load_tickets(file, id, now) = tickets

\* an update_ticket saved a ticket with an entity and two messages, one of
\* them an earlier mutation the file did not hold yet
C12_Witness ==
    /\ last.op = "update_ticket"
    /\ last.writes = 1
    /\ DOMAIN tickets[last.user_id].extracted_entities # {}
    /\ Len(tickets[last.user_id].history) = 2
    /\ last.before.file.data[last.user_id] # to_dict(last.before.tickets[last.user_id])

\* C13: Ticket.from_dict(t.to_dict()) equals t in every field, whatever id and
\* time the constructor inside from_dict draws, for every ticket of the
\* store, those with an empty history and no missing field included.
C13_FromDictInvertsToDict ==
    \A u \in DOMAIN tickets :
        \A id \in FreshIds, now \in FreshIds :
            from_dict(to_dict(tickets[u]), id, now) = tickets[u]

\* the store holds a ticket with no history and no missing field and a
\* ticket with a message, a missing field and a status other than OPEN
C13_Witness ==
    /\ \E u \in DOMAIN tickets :
          tickets[u].history = << >> /\ tickets[u].missing_fields = << >>
    /\ \E u \in DOMAIN tickets :
          /\ tickets[u].history # << >>
          /\ tickets[u].missing_fields # << >>
          /\ tickets[u].status = "PENDING_CUSTOMER"
          /\ tickets[u].ticket_id \notin FreshIds

\* the last call created the ticket the user has in the store
CreatedTicket ==
    /\ Turn
    /\ ~HadTicket
    /\ last.user_id \in DOMAIN tickets

\* C14: calculate_severity gives High for Angry and Urgent, Medium for
\* Confused and Low for Happy and Neutral, and a ticket created by a call of
\* process_email carries the severity of that table for the mood classified
\* in the call.
C14_SeverityFollowsCreationMood ==
    LET table == [Angry |-> "High", Urgent |-> "High", Confused |-> "Medium",
                  Happy |-> "Low", Neutral |-> "Low"]
    IN  /\ \A mood \in DOMAIN table : calculate_severity(mood) = table[mood]
        /\ CreatedTicket
            => /\ MoodReturned
               /\ LET mood == predict_mood(classifier, last.msg.text, last.msg.l1).value
                  IN  /\ mood \in DOMAIN table
                      /\ tickets[last.user_id].mood = mood
                      /\ tickets[last.user_id].severity = table[mood]

\* a call created a ticket of severity High, and one of severity Medium is
\* in the store too
C14_Witness ==
    /\ CreatedTicket
    /\ tickets[last.user_id].severity = "High"
    /\ tickets[last.user_id].mood \in {"Angry", "Urgent"}
    /\ \E u \in DOMAIN tickets : tickets[u].severity = "Medium"

\* C15: when the dispatcher returns invalid_format, the reply is the
\* invalid-format template with the first field the dispatcher reported, and
\* the ticket is still in the store, not resolved, and in the file; a
\* not_found result closes the ticket.
C15_InvalidFormatKeepsTicket ==
    /\ DispatchReturned("invalid_format")
        => /\ last.dispatch[1].outcome.value.missing # None
           /\ last.dispatch[1].outcome.value.missing[1] # << >>
           /\ last.reply = Ret(render("email_invalid_format.j2",
                                      [data |-> [field_name |->
                                          last.dispatch[1].outcome.value.missing[1][1]]]))
           /\ last.user_id \in DOMAIN tickets
           /\ tickets[last.user_id].status # "RESOLVED"
           /\ Persisted(last.user_id)
    /\ DispatchReturned("not_found") => last.user_id \notin DOMAIN tickets

\* the follow-up to a pending order inquiry yields a word that is no order
\* id: the reply names "Order ID" and the ticket stays
C15_Witness ==
    /\ DispatchReturned("invalid_format")
    /\ HadTicket
    /\ last.dispatch[1].entities = ("order_id" :> <<"s", "t", "a", "t", "u", "s">>)
    /\ last.reply.value.context.data.field_name = <<"O", "r", "d", "e", "r", " ", "I", "D">>
    /\ last.user_id \in DOMAIN tickets

\* C16: calls of process_email being atomic, turns of different users are
\* independent: after any interleaving, each user's ticket in the store (or
\* its absence) is the one of the run in which only that user's calls were
\* made, the reply of a call is the reply of that call in that run, and a
\* call for one user leaves every other user's ticket as it was.
C16_UsersAreIndependent ==
    /\ \A u \in Users : Get(tickets, u) = Get(solo[u].tickets, u)
    /\ Turn
        => /\ last.reply = solo[last.user_id].reply
           /\ \A v \in Users \ {last.user_id} :
                  Get(tickets, v) = Get(last.before.tickets, v)

\* a user's follow-up is dispatched and closes the ticket after another
\* user's call, made in between, left a ticket in the store
C16_Witness ==
    /\ Turn
    /\ HadTicket
    /\ Dispatched
    /\ last.user_id \notin DOMAIN tickets
    /\ last.reply = solo[last.user_id].reply
    /\ \E v \in DOMAIN tickets :
          /\ v # last.user_id
          /\ tickets[v].created_at > last.before.tickets[last.user_id].created_at
          /\ solo[v].tickets = (v :> tickets[v])

\* C17: a ticket's severity is the one of its creation: after any step, a
\* ticket that was in the store before it has the severity it had, and a
\* later turn for it overwrites its mood with the mood classified in the turn,
\* whatever severity that mood maps to.
C17_SeverityIsFixedAtCreation ==
    /\ \A u \in DOMAIN tickets \cap DOMAIN last.before.tickets :
           tickets[u].ticket_id = last.before.tickets[u].ticket_id
               => tickets[u].severity = last.before.tickets[u].severity
    /\ (Turn /\ HadTicket /\ last.msg.faq = None /\ MoodReturned
             /\ last.user_id \in DOMAIN tickets)
        => tickets[last.user_id].mood =
               predict_mood(classifier, last.msg.text, last.msg.l1).value

\* a later turn changed the ticket's mood to one that maps to another
\* severity than the ticket's
C17_Witness ==
    /\ Turn
    /\ HadTicket
    /\ last.user_id \in DOMAIN tickets
    /\ tickets[last.user_id].mood # last.before.tickets[last.user_id].mood
    /\ tickets[last.user_id].severity = "Low"
    /\ calculate_severity(tickets[last.user_id].mood) = "High"

\* a is b with some of its elements left out, the others in b's order
RECURSIVE IsSubsequence(_, _)
IsSubsequence(a, b) ==
    IF a = << >> THEN TRUE
    ELSE IF b = << >> THEN FALSE
    ELSE IF Head(a) = Head(b) THEN IsSubsequence(Tail(a), Tail(b))
    ELSE IsSubsequence(a, Tail(b))

\* C18: over the lifetime of a ticket missing_fields only shrinks: after any
\* step, the missing_fields of a ticket that was in the store before it is a
\* sub-sequence of what it was, and the missing_fields of a ticket a call
\* created is a sub-sequence of the required slots of its intent.
C18_MissingFieldsOnlyShrinks ==
    /\ \A u \in DOMAIN tickets \cap DOMAIN last.before.tickets :
           tickets[u].ticket_id = last.before.tickets[u].ticket_id
               => IsSubsequence(tickets[u].missing_fields,
                                last.before.tickets[u].missing_fields)
    /\ (CreatedTicket /\ tickets[last.user_id].intent \in DOMAIN intent_config)
        => IsSubsequence(tickets[last.user_id].missing_fields,
                         intent_config[tickets[last.user_id].intent].required_entities)

\* a follow-up fills the second of two missing slots: the first one stays
C18_Witness ==
    /\ Turn
    /\ HadTicket
    /\ last.before.tickets[last.user_id].missing_fields = <<"order_id", "email">>
    /\ last.user_id \in DOMAIN tickets
    /\ tickets[last.user_id].missing_fields = <<"order_id">>

\* C19: while a ticket remains in the store a filled slot keeps its value:
\* after any step, every entity a ticket had before the step is an entity of
\* the ticket with the same value, whatever the text of the turn yields for
\* the slot.
C19_FilledSlotKeepsItsValue ==
    \A u \in DOMAIN tickets \cap DOMAIN last.before.tickets :
        tickets[u].ticket_id = last.before.tickets[u].ticket_id
            => \A slot \in DOMAIN last.before.tickets[u].extracted_entities :
                   /\ slot \in DOMAIN tickets[u].extracted_entities
                   /\ tickets[u].extracted_entities[slot] =
                          last.before.tickets[u].extracted_entities[slot]

\* a follow-up names another order id than the one the pending ticket
\* holds: the ticket keeps the first
C19_Witness ==
    /\ Turn
    /\ HadTicket
    /\ last.msg.faq = None
    /\ MoodReturned
    /\ "order_id" \in DOMAIN last.before.tickets[last.user_id].extracted_entities
    /\ extract_order_id(last.msg.text) # None
    /\ extract_order_id(last.msg.text)
           # Some(last.before.tickets[last.user_id].extracted_entities["order_id"])
    /\ last.user_id \in DOMAIN tickets
    /\ tickets[last.user_id].extracted_entities["order_id"] =
           last.before.tickets[last.user_id].extracted_entities["order_id"]

\* the last step was a call of process_request for an intent of the
\* configuration
ConfiguredRequest ==
    /\ last.op = "process_request"
    /\ last.dispatch[1].intent \in DOMAIN intent_config

RequestRequired == intent_config[last.dispatch[1].intent].required_entities

\* the call returned missing_info with data {} and this list
ReturnedMissing(list) ==
    last.dispatch[1].outcome = Ret(Result("missing_info", EmptyDict, Some(list)))

ReturnedMissingInfo ==
    /\ ~last.dispatch[1].outcome.raised
    /\ last.dispatch[1].outcome.value.state = "missing_info"

\* C20 as stated: for an intent with configuration, process_request returns
\* missing_info with data {} exactly when a required slot is not a key of the
\* entities, the missing list being the required slots that are not keys; when
\* every required slot is a key the action is dispatched.
C20_MissingIsRequiredMinusKeys ==
    ConfiguredRequest
        => LET missing == SelectSeq(RequestRequired,
                                    LAMBDA req : req \notin DOMAIN last.dispatch[1].entities)
           IN  /\ missing # << >> => ReturnedMissing(missing)
               /\ missing = << >> => ~ReturnedMissingInfo

\* C20 amended: for an intent with configuration, process_request returns
\* missing_info with data {} exactly when a required slot is not a key of the
\* entities or has an empty value, the missing list being those slots in the
\* order of the configuration; when every required slot has a non-empty value
\* the action is dispatched.
C20_MissingIsRequiredWithoutValue ==
    ConfiguredRequest
        => LET missing == SelectSeq(RequestRequired,
                                    LAMBDA req :
                                        \/ req \notin DOMAIN last.dispatch[1].entities
                                        \/ last.dispatch[1].entities[req] = << >>)
           IN  /\ missing # << >> => ReturnedMissing(missing)
               /\ missing = << >> => ~ReturnedMissingInfo

\* the required slot is a key of the entities with an empty value, and the
\* call returned missing_info naming it
C20_Witness ==
    /\ ConfiguredRequest
    /\ RequestRequired = <<"order_id">>
    /\ "order_id" \in DOMAIN last.dispatch[1].entities
    /\ last.dispatch[1].entities["order_id"] = << >>
    /\ ReturnedMissing(<<"order_id">>)

\* the last step was a call of process_request that reached _lookup_order
\* with this order id
LookedUp(order_id) ==
    /\ ConfiguredRequest
    /\ intent_config[last.dispatch[1].intent].action_type = "lookup_order"
    /\ ~ReturnedMissingInfo
    /\ order_id = last.dispatch[1].entities["order_id"]

\* the format the lookup accepts, as the specification words it
AcceptedFormat(order_id) ==
    \/ StartsWith(order_id, <<"#">>)
    \/ StartsWith(Lower(order_id), <<"o", "r", "d", "-">>)
    \/ Len(order_id) > 0 /\ \A i \in DOMAIN order_id : order_id[i] \in DigitChars
    \/ Len(order_id) >= 4 /\ \E i \in DOMAIN order_id : order_id[i] \in DigitChars

InCatalog(order_id) == \E i \in DOMAIN mock_db.orders : mock_db.orders[i].order_id = order_id

OrderIdSought == ReachedSlotFilling /\ InList("order_id", PriorMissing)

\* C22: extract_order_id never returns a value without a digit: in a turn
\* that seeks the order id, the result is None or a string of at least 4
\* letters, digits and hyphens with at least one digit, and when the text
\* holds no such token the ticket stays in the store waiting for order_id.
C22_ExtractedOrderIdHasDigit ==
    OrderIdSought
        => LET val == extract_order_id(last.msg.text)
           IN  /\ \/ val = None
                  \/ /\ Len(val[1]) >= 4
                     /\ \A i \in DOMAIN val[1] : val[1][i] \in IdChars
                     /\ \E i \in DOMAIN val[1] : val[1][i] \in DigitChars
               /\ (\A tok \in Range(Split(last.msg.text)) :
                       \A i \in DOMAIN tok : tok[i] \notin DigitChars)
                   => /\ last.user_id \in DOMAIN tickets
                      /\ InList("order_id", tickets[last.user_id].missing_fields)

\* a text without any digit in which a word follows "order": the word was
\* extracted as the order id and the ticket was dispatched with it
C22_Witness ==
    /\ OrderIdSought
    /\ last.msg.text = TextOrderWord
    /\ extract_order_id(last.msg.text) = Some(<<"s", "t", "a", "t", "u", "s">>)
    /\ Dispatched
    /\ last.dispatch[1].entities["order_id"] = <<"s", "t", "a", "t", "u", "s">>
    /\ last.user_id \in DOMAIN tickets
    /\ tickets[last.user_id].missing_fields = << >>

\* the last call asked predict_mood for the mood of its text, with a
\* classifier whose mood_classifier attribute was assigned
MoodPredicted ==
    /\ Turn
    /\ last.msg.faq = None
    /\ classifier.mood_classifier # "unset"

\* layer 1 accepted a label: the model is loaded, predict_proba returned and
\* its highest probability is at least 0.50
Layer1Accepts ==
    /\ classifier.mood_classifier = "model"
    /\ ~last.msg.l1.error
    /\ \E i \in DOMAIN last.msg.l1.probs : last.msg.l1.probs[i] >= 50

Layer1Label == KnownLabels[ArgMax(last.msg.l1.probs)]

NoLexiconHit ==
    \A m \in DOMAIN Keywords : ~AnyIn(Keywords[m], Lower(last.msg.text))

\* the moods that have a reference-phrase anchor (mood_anchors), and what the
\* embedder gives for the similarity of a text to each, in hundredths: the
\* order inquiry is nearest to the Urgent anchor
AnchorMoods == <<"Angry", "Happy", "Urgent", "Confused", "Neutral">>

AnchorSimilarity == [t \in TextCorpus |-> IF t = TextOrder1001 THEN <<20, 10, 40, 15, 30>>
                                          ELSE <<10, 10, 10, 10, 30>>]

\* the nearest anchor, Neutral when a non-Neutral winner scores below 0.35
NearestAnchorMood(text) ==
    LET sim == AnchorSimilarity[text]
        win == ArgMax(sim)
    IN  IF AnchorMoods[win] # "Neutral" /\ sim[win] < 35 THEN "Neutral" ELSE AnchorMoods[win]

\* C24: when layer 1 does not accept and the text has no lexicon hit,
\* predict_mood returns the mood whose anchor is most similar to the text,
\* Neutral standing in for a non-Neutral winner below 0.35: a non-Neutral
\* winner of at least 0.35 is the mood returned.
C24_NearestAnchorDecides ==
    (MoodPredicted /\ classifier.embedder /\ ~Layer1Accepts /\ NoLexiconHit)
        => predict_mood(classifier, last.msg.text, last.msg.l1)
               = Ret(NearestAnchorMood(last.msg.text))

\* layer 1 gave 0.40 at most for a text without a lexicon phrase whose
\* nearest anchor is Urgent with 0.40: the ticket of the turn is Neutral
C24_Witness ==
    /\ MoodPredicted
    /\ classifier.embedder
    /\ ~Layer1Accepts
    /\ NoLexiconHit
    /\ NearestAnchorMood(last.msg.text) = "Urgent"
    /\ predict_mood(classifier, last.msg.text, last.msg.l1) = Ret("Neutral")

\* a complete ticket of an intent whose action is lookup_order, holding an
\* order id the lookup rejects: what a dispatch that returned invalid_format
\* leaves behind
Rejected(ticket) ==
    /\ ticket.missing_fields = << >>
    /\ ticket.intent \in DOMAIN intent_config
    /\ intent_config[ticket.intent].action_type = "lookup_order"
    /\ "order_id" \in DOMAIN ticket.extracted_entities
    /\ ~AcceptedFormat(ticket.extracted_entities["order_id"])

InvalidFormatReply ==
    Ret(render("email_invalid_format.j2",
               [data |-> [field_name |-> <<"O", "r", "d", "e", "r", " ", "I", "D">>]]))

\* C25: a dispatch that returns invalid_format leaves the ticket in the
\* store with no missing field and the rejected value; every later turn of
\* the user without an FAQ hit dispatches the ticket again with the same
\* value, whatever order id its text holds, gets invalid_format and the
\* invalid-format reply whenever the dispatcher returns, and leaves the
\* ticket in the store with the same value; a restart loads it as it was.
C25_InvalidFormatTicketIsStuck ==
    /\ DispatchReturned("invalid_format")
        => /\ last.user_id \in DOMAIN tickets
           /\ Rejected(tickets[last.user_id])
           /\ tickets[last.user_id].extracted_entities["order_id"]
                  = last.dispatch[1].entities["order_id"]
    /\ (Turn /\ HadTicket /\ Rejected(last.before.tickets[last.user_id]))
        => LET before == last.before.tickets[last.user_id]
           IN  /\ last.user_id \in DOMAIN tickets
               /\ tickets[last.user_id].ticket_id = before.ticket_id
               /\ Rejected(tickets[last.user_id])
               /\ tickets[last.user_id].extracted_entities["order_id"]
                      = before.extracted_entities["order_id"]
               /\ last.msg.faq = None
                   => /\ Dispatched
                      /\ last.dispatch[1].entities["order_id"]
                             = before.extracted_entities["order_id"]
                      /\ ~last.dispatch[1].outcome.raised
                          => /\ DispatchReturned("invalid_format")
                             /\ last.reply = InvalidFormatReply
    /\ last.op = "restart"
        => \A u \in DOMAIN last.before.tickets :
               Rejected(last.before.tickets[u])
                   => /\ u \in DOMAIN tickets
                      /\ Rejected(tickets[u])
                      /\ tickets[u].extracted_entities = last.before.tickets[u].extracted_entities

\* the turn after the one that was answered invalid_format names an order
\* of the catalog: the ticket is dispatched with the rejected word again and
\* stays in the store
C25_Witness ==
    /\ Turn
    /\ HadTicket
    /\ Rejected(last.before.tickets[last.user_id])
    /\ extract_order_id(last.msg.text) = Some(<<"1", "0", "0", "1">>)
    /\ DispatchReturned("invalid_format")
    /\ last.reply = InvalidFormatReply
    /\ last.user_id \in DOMAIN tickets
    /\ tickets[last.user_id].extracted_entities["order_id"] = <<"s", "t", "a", "t", "u", "s">>

\* a human_handoff ticket under a configuration without a human_handoff entry
Unroutable(ticket) ==
    /\ ticket.intent = "human_handoff"
    /\ "human_handoff" \notin DOMAIN intent_config

\* C26: when the configuration has no entry for human_handoff, a
\* human_handoff ticket is never closed by process_email: a turn of its user
\* leaves the same ticket in the store, complete and with its intent, and
\* without an FAQ hit the turn dispatches it for human_handoff, gets state
\* error when the dispatcher returns, and replies with the system-error
\* template of the ticket; a restart loads the ticket again.
C26_HandoffTicketIsNeverClosed ==
    /\ (Turn /\ HadTicket /\ Unroutable(last.before.tickets[last.user_id]))
        => /\ last.user_id \in DOMAIN tickets
           /\ tickets[last.user_id].ticket_id = last.before.tickets[last.user_id].ticket_id
           /\ Unroutable(tickets[last.user_id])
           /\ is_complete(tickets[last.user_id])
           /\ tickets[last.user_id].status # "RESOLVED"
           /\ last.msg.faq = None
               => /\ Dispatched
                  /\ last.dispatch[1].intent = "human_handoff"
                  /\ ~last.dispatch[1].outcome.raised => DispatchReturned("error")
                  /\ last.reply = Ret(SystemError(tickets[last.user_id]))
    /\ last.op = "restart"
        => \A u \in DOMAIN last.before.tickets :
               Unroutable(last.before.tickets[u])
                   => u \in DOMAIN tickets /\ Unroutable(tickets[u]) /\ is_complete(tickets[u])

\* the turn after a handoff is an order inquiry with an order of the
\* catalog: it is dispatched for human_handoff, answered with the system
\* error, and the handoff ticket stays
C26_Witness ==
    /\ Turn
    /\ HadTicket
    /\ Unroutable(last.before.tickets[last.user_id])
    /\ Classified = "order_status_inquiry"
    /\ last.msg.text = TextOrder1001
    /\ DispatchReturned("error")
    /\ last.reply.value.template = "email_system_error.j2"
    /\ last.user_id \in DOMAIN tickets
    /\ tickets[last.user_id].intent = "human_handoff"

\* the last call returned this template rendered
Rendered(template_name) ==
    /\ Replied
    /\ "template" \in DOMAIN last.reply.value
    /\ last.reply.value.template = template_name

\* the last call ended in the handoff, system-error or invalid-format return
EarlyReturn ==
    \/ Rendered("email_unknown_intent.j2")
    \/ Rendered("email_system_error.j2")
    \/ Rendered("email_invalid_format.j2")

\* the history holds an entry the last call appended for this sender: the
\* clock reading of a call is its own
LoggedInTurn(history, sender) ==
    \E i \in DOMAIN history : history[i].timestamp = clock /\ history[i].sender = sender

\* STEP 3 of the last call extracted a value, and so saved the ticket
SavedInStep3 == ReachedSlotFilling /\ DOMAIN Found # {}

\* C27 as stated: the bot reply appended at the end of a turn, and the user
\* message and the mood change of a turn that ends in the handoff,
\* system-error or invalid-format return, are in no save of the turn: the
\* file holds the ticket without them.
C27_TurnTailIsNeverSaved ==
    /\ Rendered("email_request_info.j2")
        => /\ Persisted(last.user_id)
           /\ LoggedInTurn(tickets[last.user_id].history, "bot")
           /\ ~LoggedInTurn(file.data[last.user_id].history, "bot")
    /\ EarlyReturn
        => /\ last.user_id \in DOMAIN tickets
           /\ LoggedInTurn(tickets[last.user_id].history, "user")
           /\ Persisted(last.user_id)
               => /\ ~LoggedInTurn(file.data[last.user_id].history, "user")
                  /\ (HadTicket /\ tickets[last.user_id].mood # last.before.tickets[last.user_id].mood)
                      => file.data[last.user_id].mood # tickets[last.user_id].mood

\* C27 amended: what a turn appends or changes after its last save is not in
\* the file.  The bot reply of a turn that asks for information is never in
\* it.  The user message and the mood of a turn that ends in the handoff,
\* system-error or invalid-format return are in the file exactly when STEP 3
\* extracted a value in that turn and saved: otherwise the turn of a user
\* with a ticket saves nothing, and the handoff turn saves the new ticket
\* with an empty history.  A save of the turn persists every other user's
\* ticket as it is in memory, and a restart loads what the file holds.
C27_UnsavedAfterLastSave ==
    /\ Rendered("email_request_info.j2")
        => /\ Persisted(last.user_id)
           /\ LoggedInTurn(tickets[last.user_id].history, "bot")
           /\ file.data[last.user_id]
                  = to_dict([tickets[last.user_id] EXCEPT
                                !.history = SubSeq(@, 1, Len(@) - 1)])
    /\ EarlyReturn
        => /\ last.user_id \in DOMAIN tickets
           /\ LoggedInTurn(tickets[last.user_id].history, "user")
           /\ IF SavedInStep3
              THEN /\ Persisted(last.user_id)
                   /\ file.data[last.user_id] = to_dict(tickets[last.user_id])
              ELSE IF HadTicket
              THEN last.writes = 0 /\ file = last.before.file
              ELSE /\ Persisted(last.user_id)
                   /\ file.data[last.user_id]
                          = to_dict([tickets[last.user_id] EXCEPT !.history = << >>])
    /\ (Turn /\ last.writes > 0)
        => \A u \in DOMAIN tickets \ {last.user_id} :
               Persisted(u) /\ file.data[u] = to_dict(tickets[u])
    /\ (last.op = "restart" /\ file.kind = "json") => Snapshot(tickets) = file.data

\* a new order inquiry whose text yields a word as order id: STEP 3 saved the
\* ticket with the user message, and the turn ended in the invalid-format
\* return
C27_Witness ==
    /\ Rendered("email_invalid_format.j2")
    /\ ~HadTicket
    /\ SavedInStep3
    /\ Persisted(last.user_id)
    /\ LoggedInTurn(file.data[last.user_id].history, "user")

\* the last call invoked the dispatcher for an intent of the configuration
DispatchedConfigured == Dispatched /\ last.dispatch[1].intent \in DOMAIN intent_config

\* every required slot of the dispatched intent has a non-empty value in the
\* entities the dispatcher was given
RequiredSlotsFilled ==
    \A slot \in Range(intent_config[last.dispatch[1].intent].required_entities) :
        /\ slot \in DOMAIN last.dispatch[1].entities
        /\ last.dispatch[1].entities[slot] # << >>

\* C28 as stated: whenever process_email invokes the dispatcher for a ticket
\* whose intent has configuration, every required slot of the intent has a
\* non-empty value in the ticket's entities: the dispatcher never returns
\* missing_info inside process_email.
C28_DispatchedTicketHasRequiredSlots ==
    DispatchedConfigured
        => /\ RequiredSlotsFilled
           /\ ~DispatchReturned("missing_info")

\* C28 amended: the same for every ticket the standard flow created, whose
\* missing_fields began as the required slots of its intent.  A
\* human_handoff ticket is created with no missing field whatever the
\* configuration requires for human_handoff: when that entry requires a
\* slot, the dispatcher returns missing_info and the ticket is closed.
C28_StandardTicketHasRequiredSlots ==
    /\ (DispatchedConfigured /\ last.dispatch[1].intent # "human_handoff")
        => /\ RequiredSlotsFilled
           /\ ~DispatchReturned("missing_info")
    /\ (DispatchedConfigured /\ last.dispatch[1].intent = "human_handoff"
            /\ intent_config["human_handoff"].required_entities # << >>
            /\ ~last.dispatch[1].outcome.raised)
        => /\ ~RequiredSlotsFilled
           /\ DispatchReturned("missing_info")
           /\ last.user_id \notin DOMAIN tickets

\* a two-slot order inquiry filled over two turns is dispatched with both
\* slots and closed
C28_Witness ==
    /\ DispatchedConfigured
    /\ HadTicket
    /\ intent_config[last.dispatch[1].intent].required_entities = <<"order_id", "email">>
    /\ RequiredSlotsFilled
    /\ last.user_id \notin DOMAIN tickets

\* C29: process_email never modifies the intent configuration or the
\* reference catalogs: no step changes an intent's required-slot list or an
\* order, product or user record, although a new ticket's missing_fields is
\* the required_entities list of the configuration itself and the record a
\* dispatch returns is merged into the ticket's entities.
C29_ConfigurationAndCatalogsNeverModified ==
    [][intent_config' = intent_config /\ mock_db' = mock_db]_vars

\* the ticket shared its missing_fields list with the configuration when the
\* turn began; the turn filled the slot, bound the attribute to a new list
\* and merged the order record of the catalog into the entities: the
\* configuration still requires the slot and the catalog is as it was
C29_Witness ==
    /\ Turn
    /\ HadTicket
    /\ last.user_id \in last.before.aliased
    /\ SavedInStep3
    /\ DispatchReturned("success")
    /\ last.dispatch[1].outcome.value.data = mock_db.orders[1]
    /\ intent_config[PriorIntent].required_entities = PriorMissing
    /\ PriorMissing # << >>
    /\ mock_db = MockDb
    /\ intent_config \in Configs

\* C30: after every step every ticket in the store, and every ticket the
\* file holds, has status OPEN or PENDING_CUSTOMER, never RESOLVED: a ticket
\* whose dispatch returned success or not_found is gone; and a ticket that
\* was PENDING_CUSTOMER before the step is PENDING_CUSTOMER after it.
C30_StoredStatusIsOpenOrPending ==
    /\ \A u \in DOMAIN tickets : tickets[u].status \in {"OPEN", "PENDING_CUSTOMER"}
    /\ \A u \in DOMAIN file.data : file.data[u].status \in {"OPEN", "PENDING_CUSTOMER"}
    /\ (DispatchReturned("success") \/ DispatchReturned("not_found"))
        => last.user_id \notin DOMAIN tickets
    /\ \A u \in DOMAIN tickets \cap DOMAIN last.before.tickets :
           (tickets[u].ticket_id = last.before.tickets[u].ticket_id
                /\ last.before.tickets[u].status = "PENDING_CUSTOMER")
               => tickets[u].status = "PENDING_CUSTOMER"

\* a ticket that was pending is completed by the turn, dispatched and
\* not closed: it stays in the store, complete and PENDING_CUSTOMER
C30_Witness ==
    /\ Turn
    /\ HadTicket
    /\ last.before.tickets[last.user_id].status = "PENDING_CUSTOMER"
    /\ Dispatched
    /\ last.user_id \in DOMAIN tickets
    /\ is_complete(tickets[last.user_id])
    /\ tickets[last.user_id].status = "PENDING_CUSTOMER"
====
